---- MODULE Spec2Model ----
(***************************************************************************)
(* Model of the PBX call correlator of ldap_editor (src/pbx_monitor.py):   *)
(* the in-memory call state kept by PBXMonitor, the ActiveCallStatus       *)
(* entry handlers (_handle_unbridge, _handle_bridge), the call_log writer  *)
(* and the state wipe that follows every session end.                      *)
(*                                                                         *)
(* Python values are modelled as strings: "" is the empty string; Missing  *)
(* stands for a key that is absent from a dict (dict.get then yields its   *)
(* default); NoneV stands for None.  Dicts are functions whose DOMAIN is   *)
(* the key set.                                                            *)
(***************************************************************************)
EXTENDS Integers, Sequences, FiniteSets, TLC

\* ------------------------------------------------------------------------
\* Bounds of the model
\* ------------------------------------------------------------------------

\* datetime.now() reads an instant (in seconds) of 0 .. MaxNow
MaxNow == 1

\* the call_log table holds at most MaxRows rows
MaxRows == 1

\* at most MaxLostCalls CallRecords are dropped by state wipes in one behaviour
MaxLostCalls == 1

\* the call_log table holds at most MaxHistoryRows rows in HistorySpec
MaxHistoryRows == 2

\* at most MaxEvents events are broadcast in FanoutSpec
MaxEvents == 3

\* each thread calls dial_outbound at most MaxDials times in DialSpec
MaxDials == 1

\* a notification carries at most MaxBatch entries
MaxBatch == 2

\* ------------------------------------------------------------------------
\* Values carried by the entries
\* ------------------------------------------------------------------------

Missing == "<missing>"
NoneV == "<None>"

\* correlation ids given by the exchange
Ids == {"L1", "L2"}

TrunkChannel == "PJSIP/trunk-01"
ExtChannel == "PJSIP/1000-02"
Channels == {TrunkChannel, ExtChannel}

\* every value that can become a correlation id: a linkedid, or (when the
\* entry has no linkedid key) its uniqueid or its channel
AllIds == Ids \cup Channels

\* the internal extensions of a ring group (callernum of extension entries)
Extensions == {"1000", "1001"}

ExternalNumber == "+390123456"

\* Python truthiness of a string-or-None value
Truthy(v) == v \notin {"", Missing, NoneV}

\* Python's `a or b`
Or(a, b) == IF Truthy(a) THEN a ELSE b

\* dict.get(key, default) on a value that is Missing when the key is absent
Get(v, default) == IF v = Missing THEN default ELSE v

\* d[k] = v
Put(d, k, v) == [x \in (DOMAIN d) \cup {k} |-> IF x = k THEN v ELSE d[x]]

\* d.pop(k, None), the dict that is left
Pop(d, k) == [x \in (DOMAIN d) \ {k} |-> d[x]]

EmptyDict == [x \in {} |-> ""]

Max(a, b) == IF a >= b THEN a ELSE b

\* ------------------------------------------------------------------------
\* Timestamps: datetime.now().strftime(...) and datetime.strptime(...)
\* ------------------------------------------------------------------------

Times == 0 .. MaxNow

\* strftime("%Y-%m-%d %H:%M:%S") of the instant n
FormatTime(n) == ToString(n)

ParseError == -1

\* strptime(s, "%Y-%m-%d %H:%M:%S"): the instant, or ParseError when s is
\* not of that format (ValueError)
ParseTime(s) ==
    IF \E n \in Times : FormatTime(n) = s
    THEN CHOOSE n \in Times : FormatTime(n) = s
    ELSE ParseError

\* ------------------------------------------------------------------------
\* State
\* ------------------------------------------------------------------------

VARIABLES
    active_calls,        \* linkedid -> CallRecord
    channel_map,         \* channel -> linkedid
    call_channels,       \* linkedid -> set of channels
    incoming_linkedids,  \* set of linkedids of inbound external calls
    call_log_meta,       \* linkedid -> [bridge_time]
    call_log,            \* the rows of table call_log, in insertion order
    db,                  \* TRUE when self._db is an open connection
    calls_lost,          \* number of CallRecords dropped by state wipes
    published,           \* the events broadcast by the last step, in order
    executed,            \* the SQL statements executed by the last step
    trunk_rung,          \* history: ids for which a trunk ring entry was seen
    ring_open,           \* history: id -> a call_ring with no call_hangup since
    ring_balance,        \* history: id -> #call_ring - #call_hangup
    ring_order,          \* history: id -> callernums of accepted ring entries
    phase,               \* the position of the monitor thread
    running,             \* self._running
    sent,                \* the request frames sent on the current connection
    lost_rows,           \* history: rows of answered calls lost in progress
    closed_rows,         \* history: rows of calls that were finalized or wiped
    link,                \* the WebSocket: "none", "open" or "closed"
    heartbeat,           \* the heartbeat task: "none", "running", "ended", "cancelled"
    extension_status,    \* extension -> latest status
    event_queues,        \* self._event_queues: the subscribed queues, in order
    queues,              \* queue -> the event objects waiting in it
    maxsize,             \* queue -> its maxsize (0: no limit)
    heap,                \* event object -> its "event" key, as it is now
    frames,              \* queue -> the SSE frames its stream has emitted
    subscriber,          \* history: queue -> what happened to its subscription
    broadcast,           \* history: event object -> the type it was published with
    cookie,              \* UCMClient._cookie: 0 is None, n is the cookie of login n
    cookie_old,          \* TRUE when time.time() - _cookie_time >= SESSION_TIMEOUT
    pc,                  \* thread -> its position in dial_outbound
    local,               \* thread -> the local variable `cookie`
    http,                \* history: thread -> the requests of its current dial
    logins,              \* history: number of logins that returned a cookie
    mark,                \* history: thread -> logins when it dropped the cookie
    dialled,             \* history: thread -> number of dials it has started
    processed,           \* history: the last batch, and the order it was processed in
    replay,              \* the correlator of a second run fed the same batches
    snapshot,            \* the dict a reader got from get_active_calls, as it is now
    snapshot_shared,     \* the ids whose record the reader shares with the store
    snapshot_at_copy     \* history: active_calls at the instant of the copy

vars == <<active_calls, channel_map, call_channels, incoming_linkedids,
          call_log_meta, call_log, db, calls_lost, published,
          executed, trunk_rung, ring_open, ring_balance, ring_order,
          phase, running, sent, lost_rows, closed_rows, link, heartbeat,
          extension_status, event_queues, queues, maxsize, heap, frames,
          subscriber, broadcast, cookie, cookie_old, pc, local, http, logins,
          mark, dialled, processed, replay, snapshot, snapshot_shared,
          snapshot_at_copy>>

\* The correlator state as one value, threaded through the handlers; t is
\* what datetime.now() reads while the entry is handled, db is the truth
\* value of self._db, and fault holds the statements whose execute() or
\* commit() raises while the entry is handled.
Cur(t) ==
    [now |-> t,
     active_calls |-> active_calls,
     channel_map |-> channel_map,
     call_channels |-> call_channels,
     incoming_linkedids |-> incoming_linkedids,
     call_log_meta |-> call_log_meta,
     call_log |-> call_log,
     db |-> db,
     fault |-> {},
     published |-> <<>>,
     executed |-> <<>>]

\* ------------------------------------------------------------------------
\* Fan-out
\* ------------------------------------------------------------------------

Event(name, linkedid) == [event |-> name, uniqueid |-> linkedid]

\* _broadcast_event: the event goes to every subscriber queue
broadcast_event(s, event) == [s EXCEPT !.published = Append(@, event)]

\* ------------------------------------------------------------------------
\* Call-history writer (table call_log and _call_log_meta)
\* ------------------------------------------------------------------------

\* a row as INSERT leaves it: answered, duration and internal_ext take the
\* column defaults unless given
Row(direction, linkedid, external_number, internal_ext, answered) ==
    [direction |-> direction,
     linkedid |-> linkedid,
     external_number |-> external_number,
     internal_ext |-> internal_ext,
     answered |-> answered,
     duration |-> 0]

Stmt(op, linkedid) == [op |-> op, linkedid |-> linkedid]

\* UPDATE call_log SET answered = 1, internal_ext = ? WHERE linkedid = ?
UpdateAnswered(rows, linkedid, internal_ext) ==
    [i \in DOMAIN rows |->
        IF rows[i].linkedid = linkedid
        THEN [rows[i] EXCEPT !.answered = 1, !.internal_ext = internal_ext]
        ELSE rows[i]]

\* UPDATE call_log SET duration = ? WHERE linkedid = ?
UpdateDuration(rows, linkedid, duration) ==
    [i \in DOMAIN rows |->
        IF rows[i].linkedid = linkedid
        THEN [rows[i] EXCEPT !.duration = duration]
        ELSE rows[i]]

\* _log_inbound_ring, had its INSERT set answered = 1
log_inbound_ring_answered(s, linkedid, external_number) ==
    IF ~s.db THEN s
    ELSE IF "insert_inbound" \in s.fault THEN s
    ELSE [s EXCEPT
            !.call_log = Append(@, Row("inbound", linkedid, external_number, "", 1)),
            !.executed = Append(@, Stmt("insert_inbound", linkedid)),
            !.call_log_meta = Put(@, linkedid, [bridge_time |-> NoneV])]

\* _log_inbound_ring, had it kept its timestamp as the bridge_time
log_inbound_ring_stamped(s, linkedid, external_number) ==
    IF ~s.db THEN s
    ELSE IF "insert_inbound" \in s.fault THEN s
    ELSE [s EXCEPT
            !.call_log = Append(@, Row("inbound", linkedid, external_number, "", 0)),
            !.executed = Append(@, Stmt("insert_inbound", linkedid)),
            !.call_log_meta = Put(@, linkedid, [bridge_time |-> FormatTime(0)])]

\* _log_inbound_ring
log_inbound_ring(s, linkedid, external_number) ==
    IF ~s.db THEN s
    ELSE IF "insert_inbound" \in s.fault THEN s
    ELSE [s EXCEPT
            !.call_log = Append(@, Row("inbound", linkedid, external_number, "", 0)),
            !.executed = Append(@, Stmt("insert_inbound", linkedid)),
            !.call_log_meta = Put(@, linkedid, [bridge_time |-> NoneV])]

\* _log_call_answered
log_call_answered(s, linkedid, internal_ext, bridge_time) ==
    IF ~s.db THEN s
    ELSE IF "update_answered" \in s.fault THEN s
    ELSE [s EXCEPT
            !.call_log = UpdateAnswered(@, linkedid, internal_ext),
            !.executed = Append(@, Stmt("update_answered", linkedid)),
            !.call_log_meta =
                IF linkedid \in DOMAIN @
                THEN Put(@, linkedid, [bridge_time |-> bridge_time])
                ELSE @]

\* _log_outbound_call
log_outbound_call(s, linkedid, timestamp, external_number, internal_ext) ==
    IF ~s.db THEN s
    ELSE IF "insert_outbound" \in s.fault THEN s
    ELSE [s EXCEPT
            !.call_log = Append(@, Row("outbound", linkedid, external_number,
                                       internal_ext, 1)),
            !.executed = Append(@, Stmt("insert_outbound", linkedid)),
            !.call_log_meta = Put(@, linkedid, [bridge_time |-> timestamp])]

\* _finalize_call_log
finalize_call_log(s, linkedid) ==
    LET has_meta == linkedid \in DOMAIN s.call_log_meta
        s1 == [s EXCEPT !.call_log_meta = Pop(@, linkedid)]
    IN  IF ~has_meta \/ ~s.db THEN s1
        ELSE LET bridge_time_str == s.call_log_meta[linkedid].bridge_time
                 bt == ParseTime(bridge_time_str)
             IN  IF ~Truthy(bridge_time_str) THEN s1
                 ELSE IF bt = ParseError THEN s1
                 ELSE IF "update_duration" \in s.fault THEN s1
                 ELSE [s1 EXCEPT
                         !.call_log = UpdateDuration(@, linkedid, Max(0, s.now - bt)),
                         !.executed = Append(@, Stmt("update_duration", linkedid))]

\* ------------------------------------------------------------------------
\* Channel index (_channel_map and _call_channels)
\* ------------------------------------------------------------------------

\* self._channel_map[channel] = linkedid
\* self._call_channels.setdefault(linkedid, set()).add(channel)
track_channel(s, channel, linkedid) ==
    [s EXCEPT
        !.channel_map = Put(@, channel, linkedid),
        !.call_channels =
            Put(@, linkedid,
                (IF linkedid \in DOMAIN @ THEN @[linkedid] ELSE {}) \cup {channel})]

\* the channels of `linked` that are left once `gone` were discarded from
\* self._call_channels.get(linked, set())
remaining_channels(s, linked, gone) ==
    (IF linked \in DOMAIN s.call_channels THEN s.call_channels[linked] ELSE {}) \ gone

\* channels.discard(ch) for every ch of `gone`, on the set stored for `linked`
discard_channels(s, linked, gone) ==
    IF linked \in DOMAIN s.call_channels
    THEN [s EXCEPT !.call_channels = Put(@, linked, @[linked] \ gone)]
    ELSE s

\* end_call, had it left the linkedid in _incoming_linkedids
end_call_keeps_incoming(s, linked) ==
    LET s1 == [s EXCEPT !.call_channels = Pop(@, linked)]
        s2 == finalize_call_log(s1, linked)
        removed == linked \in DOMAIN s2.active_calls
        s3 == [s2 EXCEPT !.active_calls = Pop(@, linked)]
    IN  IF removed THEN broadcast_event(s3, Event("call_hangup", linked)) ELSE s3

\* end_call, had it broadcast call_hangup without looking at `removed`
end_call_always_hangup(s, linked) ==
    LET s1 == [s EXCEPT
                  !.call_channels = Pop(@, linked),
                  !.incoming_linkedids = @ \ {linked}]
        s2 == finalize_call_log(s1, linked)
        s3 == [s2 EXCEPT !.active_calls = Pop(@, linked)]
    IN  broadcast_event(s3, Event("call_hangup", linked))

\* the body of `if not channels:` shared by the two delete branches:
\* the call has ended
end_call(s, linked) ==
    LET s1 == [s EXCEPT
                  !.call_channels = Pop(@, linked),
                  !.incoming_linkedids = @ \ {linked}]
        s2 == finalize_call_log(s1, linked)
        removed == linked \in DOMAIN s2.active_calls
        s3 == [s2 EXCEPT !.active_calls = Pop(@, linked)]
    IN  IF removed THEN broadcast_event(s3, Event("call_hangup", linked)) ELSE s3

\* ------------------------------------------------------------------------
\* _handle_unbridge
\* ------------------------------------------------------------------------

\* linkedid = entry.get("linkedid", uniqueid or channel)
unbridge_linkedid(entry, uniqueid) ==
    Get(entry.linkedid, Or(uniqueid, entry.channel))

\* ring_existing, had ring-group growth broadcast call_ring again
ring_existing_rebroadcast(s, linkedid, callernum) ==
    LET existing == s.active_calls[linkedid]
    IN  IF existing.state = "ringing"
           /\ Truthy(callernum)
           /\ \A i \in DOMAIN existing.extensions : existing.extensions[i] # callernum
        THEN broadcast_event(
                 [s EXCEPT !.active_calls[linkedid].extensions = Append(@, callernum)],
                 Event("call_ring", linkedid))
        ELSE s

\* ring_existing, had it appended callernum without `not in existing.extensions`
ring_existing_no_dedup(s, linkedid, callernum) ==
    LET existing == s.active_calls[linkedid]
    IN  IF existing.state = "ringing" /\ Truthy(callernum)
        THEN [s EXCEPT !.active_calls[linkedid].extensions = Append(@, callernum)]
        ELSE s

\* a ring entry for a call that is already tracked: ring-group growth while
\* it is ringing, nothing when it is connected; never a second call_ring
ring_existing(s, linkedid, callernum) ==
    LET existing == s.active_calls[linkedid]
    IN  IF existing.state = "ringing"
           /\ Truthy(callernum)
           /\ \A i \in DOMAIN existing.extensions : existing.extensions[i] # callernum
        THEN [s EXCEPT !.active_calls[linkedid].extensions = Append(@, callernum)]
        ELSE s

\* ring_new, had it written the row first and given the call up when the
\* write did not succeed
ring_new_needs_row(s, linkedid, entry) ==
    LET callernum == entry.callernum
        connectednum == entry.connectednum
        call_info == [uniqueid |-> linkedid,
                      state |-> "ringing",
                      callernum |-> connectednum,
                      connectednum |-> callernum,
                      extensions |-> IF Truthy(callernum) THEN <<callernum>> ELSE <<>>]
        s1 == log_inbound_ring(s, linkedid, connectednum)
        s2 == [s1 EXCEPT !.active_calls = Put(@, linkedid, call_info)]
    IN  IF s1.call_log = s.call_log THEN s
        ELSE broadcast_event(s2, Event("call_ring", linkedid))

\* a ring entry for a new inbound call: the CallRecord, call_ring, the row
ring_new(s, linkedid, entry) ==
    LET callernum == entry.callernum
        connectednum == entry.connectednum
        call_info == [uniqueid |-> linkedid,
                      state |-> "ringing",
                      callernum |-> connectednum,
                      connectednum |-> callernum,
                      extensions |-> IF Truthy(callernum) THEN <<callernum>> ELSE <<>>]
        s1 == [s EXCEPT !.active_calls = Put(@, linkedid, call_info)]
        s2 == broadcast_event(s1, Event("call_ring", linkedid))
    IN  log_inbound_ring(s2, linkedid, connectednum)

\* unbridge_add, without `if linkedid not in self._incoming_linkedids: return`
unbridge_add_unfiltered(s, entry, uniqueid) ==
    LET channel == entry.channel
        linkedid == unbridge_linkedid(entry, uniqueid)
        s1 == IF Truthy(channel) /\ Truthy(linkedid)
              THEN track_channel(s, channel, linkedid)
              ELSE s
    IN  IF entry.state \notin {"Ring", "Ringing"} THEN s1
        ELSE IF Truthy(entry.inbound_trunk_name)
        THEN IF Truthy(linkedid)
             THEN [s1 EXCEPT !.incoming_linkedids = @ \cup {linkedid}]
             ELSE s1
        ELSE IF ~Truthy(linkedid) THEN s1
        ELSE IF linkedid \in DOMAIN s1.active_calls
        THEN ring_existing(s1, linkedid, entry.callernum)
        ELSE ring_new(s1, linkedid, entry)

\* unbridge_add, had every ring entry marked its linkedid as incoming
unbridge_add_marks_every_ring(s, entry, uniqueid) ==
    LET channel == entry.channel
        linkedid == unbridge_linkedid(entry, uniqueid)
        s1 == IF Truthy(channel) /\ Truthy(linkedid)
              THEN track_channel(s, channel, linkedid)
              ELSE s
        s2 == IF Truthy(linkedid)
              THEN [s1 EXCEPT !.incoming_linkedids = @ \cup {linkedid}]
              ELSE s1
    IN  IF entry.state \notin {"Ring", "Ringing"} THEN s1
        ELSE IF Truthy(entry.inbound_trunk_name) THEN s2
        ELSE IF ~Truthy(linkedid) THEN s1
        ELSE IF linkedid \in DOMAIN s2.active_calls
        THEN ring_existing(s2, linkedid, entry.callernum)
        ELSE ring_new(s2, linkedid, entry)

\* unbridge_add, without `if channel and linkedid` before the index update
unbridge_add_tracks_unguarded(s, entry, uniqueid) ==
    LET channel == entry.channel
        linkedid == unbridge_linkedid(entry, uniqueid)
        s1 == track_channel(s, channel, linkedid)
    IN  IF entry.state \notin {"Ring", "Ringing"} THEN s1
        ELSE IF Truthy(entry.inbound_trunk_name)
        THEN IF Truthy(linkedid)
             THEN [s1 EXCEPT !.incoming_linkedids = @ \cup {linkedid}]
             ELSE s1
        ELSE IF ~Truthy(linkedid) \/ linkedid \notin s1.incoming_linkedids THEN s1
        ELSE IF linkedid \in DOMAIN s1.active_calls
        THEN ring_existing(s1, linkedid, entry.callernum)
        ELSE ring_new(s1, linkedid, entry)

\* action in ("add", "update")
unbridge_add(s, entry, uniqueid) ==
    LET channel == entry.channel
        linkedid == unbridge_linkedid(entry, uniqueid)
        s1 == IF Truthy(channel) /\ Truthy(linkedid)
              THEN track_channel(s, channel, linkedid)
              ELSE s
    IN  IF entry.state \notin {"Ring", "Ringing"} THEN s1
        ELSE IF Truthy(entry.inbound_trunk_name)
        THEN IF Truthy(linkedid)
             THEN [s1 EXCEPT !.incoming_linkedids = @ \cup {linkedid}]
             ELSE s1
        ELSE IF ~Truthy(linkedid) \/ linkedid \notin s1.incoming_linkedids THEN s1
        ELSE IF linkedid \in DOMAIN s1.active_calls
        THEN ring_existing(s1, linkedid, entry.callernum)
        ELSE ring_new(s1, linkedid, entry)

\* linked = self._channel_map.pop(channel, None) if channel else None
unbridge_delete_linked(s, entry) ==
    IF Truthy(entry.channel) /\ entry.channel \in DOMAIN s.channel_map
    THEN s.channel_map[entry.channel]
    ELSE NoneV

\* action == "delete"
unbridge_delete(s, entry) ==
    LET channel == entry.channel
        linked == unbridge_delete_linked(s, entry)
        s1 == [s EXCEPT !.channel_map = Pop(@, channel)]
        s2 == discard_channels(s1, linked, {channel})
    IN  IF ~Truthy(linked) THEN s1
        ELSE IF remaining_channels(s1, linked, {channel}) = {}
        THEN end_call(s2, linked)
        ELSE s2

handle_unbridge(s, action, entry, uniqueid) ==
    IF action \in {"add", "update"} THEN unbridge_add(s, entry, uniqueid)
    ELSE IF action = "delete" THEN unbridge_delete(s, entry)
    ELSE s

\* ------------------------------------------------------------------------
\* _handle_bridge
\* ------------------------------------------------------------------------

\* "trunk" in ch.lower()
ContainsTrunk(ch) == ch = TrunkChannel

\* _extract_bridge_parties: (external_number, internal_ext), NoneV for None
extract_bridge_parties(entry) ==
    IF ContainsTrunk(entry.channel1)
    THEN [ext_num |-> entry.callerid1, int_ext |-> entry.callerid2]
    ELSE IF ContainsTrunk(entry.channel2)
    THEN [ext_num |-> entry.callerid2, int_ext |-> entry.callerid1]
    ELSE [ext_num |-> NoneV, int_ext |-> NoneV]

\* _resolve_bridge_linkedid, had it looked channel2 up before channel1
resolve_bridge_linkedid_channel2_first(s, entry) ==
    LET linkedid == Get(entry.linkedid, "")
        found == SelectSeq(<<entry.channel2, entry.channel1, entry.channel>>,
                           LAMBDA ch : Truthy(ch) /\ ch \in DOMAIN s.channel_map)
    IN  IF Truthy(linkedid) THEN linkedid
        ELSE IF found # <<>> THEN s.channel_map[Head(found)]
        ELSE ""

\* _resolve_bridge_linkedid
resolve_bridge_linkedid(s, entry) ==
    LET linkedid == Get(entry.linkedid, "")
        found == SelectSeq(<<entry.channel1, entry.channel2, entry.channel>>,
                           LAMBDA ch : Truthy(ch) /\ ch \in DOMAIN s.channel_map)
    IN  IF Truthy(linkedid) THEN linkedid
        ELSE IF found # <<>> THEN s.channel_map[Head(found)]
        ELSE ""

\* bridge_channels = [ch for ch in (channel, channel1, channel2) if ch]
bridge_channels(entry) ==
    SelectSeq(<<entry.channel, entry.channel1, entry.channel2>>, Truthy)

RECURSIVE track_channels(_, _, _)
\* for ch in bridge_channels: track ch under linkedid
track_channels(s, chans, linkedid) ==
    IF chans = <<>> THEN s
    ELSE track_channels(track_channel(s, Head(chans), linkedid), Tail(chans), linkedid)

\* bridge_connect, had it stamped a bridge without bridge_time with the
\* clock as the outbound history does
bridge_connect_stamps_clock(s, linkedid, entry) ==
    LET call_info == [uniqueid |-> linkedid,
                      state |-> "connected",
                      callerid1 |-> entry.callerid1,
                      callerid2 |-> entry.callerid2,
                      bridge_time |-> Or(entry.bridge_time, FormatTime(s.now))]
        s1 == [s EXCEPT !.active_calls = Put(@, linkedid, call_info)]
    IN  broadcast_event(s1, Event("call_connect", linkedid))

\* the CallRecord becomes connected and call_connect is published
bridge_connect(s, linkedid, entry) ==
    LET call_info == [uniqueid |-> linkedid,
                      state |-> "connected",
                      callerid1 |-> entry.callerid1,
                      callerid2 |-> entry.callerid2,
                      bridge_time |-> entry.bridge_time]
        s1 == [s EXCEPT !.active_calls = Put(@, linkedid, call_info)]
    IN  broadcast_event(s1, Event("call_connect", linkedid))

\* bridge_history, without `and not inbound_trunk`
bridge_history_any_trunk(s, linkedid, entry) ==
    LET parties == extract_bridge_parties(entry)
        s1 == IF Truthy(entry.outbound_trunk_name) /\ Truthy(parties.ext_num)
              THEN log_outbound_call(s, linkedid,
                                     Or(entry.bridge_time, FormatTime(s.now)),
                                     parties.ext_num, Or(parties.int_ext, ""))
              ELSE s
    IN  IF linkedid \in s1.incoming_linkedids /\ linkedid \in DOMAIN s1.call_log_meta
        THEN log_call_answered(s1, linkedid, Or(parties.int_ext, ""), entry.bridge_time)
        ELSE s1

\* the two call_log blocks of a bridge add/update
bridge_history(s, linkedid, entry) ==
    LET parties == extract_bridge_parties(entry)
        s1 == IF Truthy(entry.outbound_trunk_name) /\ ~Truthy(entry.inbound_trunk_name)
                 /\ Truthy(parties.ext_num)
              THEN log_outbound_call(s, linkedid,
                                     Or(entry.bridge_time, FormatTime(s.now)),
                                     parties.ext_num, Or(parties.int_ext, ""))
              ELSE s
    IN  IF linkedid \in s1.incoming_linkedids /\ linkedid \in DOMAIN s1.call_log_meta
        THEN log_call_answered(s1, linkedid, Or(parties.int_ext, ""), entry.bridge_time)
        ELSE s1

\* bridge_notify, without `if linkedid not in self.active_calls: return`
bridge_notify_unchecked(s, linkedid, entry) ==
    IF linkedid \notin s.incoming_linkedids THEN s
    ELSE bridge_connect(s, linkedid, entry)

\* the surfacing of a bridge add/update to the active calls
bridge_notify(s, linkedid, entry) ==
    IF linkedid \notin s.incoming_linkedids THEN s
    ELSE IF linkedid \notin DOMAIN s.active_calls THEN s
    ELSE bridge_connect(s, linkedid, entry)

\* the linkedid of a bridge add/update: the resolved one, or for an outbound
\* bridge the fallback uniqueid or channel1 or channel2 or channel
bridge_linkedid(s, entry, uniqueid) ==
    LET resolved == resolve_bridge_linkedid(s, entry)
    IN  IF ~Truthy(resolved) /\ Truthy(entry.outbound_trunk_name)
        THEN Or(uniqueid, Or(entry.channel1, Or(entry.channel2, entry.channel)))
        ELSE resolved

\* action in ("add", "update")
bridge_add(s, entry, uniqueid) ==
    LET linkedid == bridge_linkedid(s, entry, uniqueid)
    IN  IF ~Truthy(linkedid) THEN s
        ELSE bridge_notify(
                 bridge_history(
                     track_channels(s, bridge_channels(entry), linkedid),
                     linkedid, entry),
                 linkedid, entry)

\* the linkedid of the first of bridge_channels that is in _channel_map
bridge_delete_linked(s, entry) ==
    LET found == SelectSeq(bridge_channels(entry),
                           LAMBDA ch : ch \in DOMAIN s.channel_map)
    IN  IF found # <<>> THEN s.channel_map[Head(found)] ELSE NoneV

\* action == "delete"
bridge_delete(s, entry) ==
    LET chans == bridge_channels(entry)
        gone == {chans[i] : i \in DOMAIN chans}
        linked == bridge_delete_linked(s, entry)
        s1 == [s EXCEPT !.channel_map = [c \in (DOMAIN @) \ gone |-> @[c]]]
        s2 == discard_channels(s1, linked, gone)
    IN  IF ~Truthy(linked) THEN s1
        ELSE IF remaining_channels(s1, linked, gone) = {}
        THEN end_call(s2, linked)
        ELSE s2

handle_bridge(s, action, entry, uniqueid) ==
    IF action \in {"add", "update"} THEN bridge_add(s, entry, uniqueid)
    ELSE IF action = "delete" THEN bridge_delete(s, entry)
    ELSE s

\* the body of the loop of _handle_active_call_status, for one entry
handle_entry(s, entry) ==
    IF entry.chantype = "unbridge"
    THEN handle_unbridge(s, entry.action, entry, entry.uniqueid)
    ELSE IF entry.chantype = "bridge"
    THEN handle_bridge(s, entry.action, entry, entry.uniqueid)
    ELSE s

\* the sort key of an entry: 0 if e.get("inbound_trunk_name") else 1
sort_key(entry) == IF Truthy(entry.inbound_trunk_name) THEN 0 ELSE 1

RECURSIVE insert_sorted(_, _)
\* the entry goes after every entry whose key is not greater than its own
\* (sorted() is stable: entries of equal key keep their order)
insert_sorted(list, entry) ==
    IF list = <<>> THEN <<entry>>
    ELSE IF sort_key(Head(list)) <= sort_key(entry)
    THEN <<Head(list)>> \o insert_sorted(Tail(list), entry)
    ELSE <<entry>> \o list

RECURSIVE sort_into(_, _)
\* the entries of `rest` are inserted into `list`, in delivery order
sort_into(list, rest) ==
    IF rest = <<>> THEN list
    ELSE sort_into(insert_sorted(list, Head(rest)), Tail(rest))

\* sorted(eventbody, key=...), had the list been left in delivery order
sorted_unsorted(eventbody) == eventbody

\* sorted(eventbody, key=...)
sorted(eventbody) == sort_into(<<>>, eventbody)

RECURSIVE handle_entries(_, _)
\* for entry in eventbody: the body of the loop, entry after entry
handle_entries(s, eventbody) ==
    IF eventbody = <<>> THEN s
    ELSE handle_entries(handle_entry(s, Head(eventbody)), Tail(eventbody))

\* _handle_active_call_status
handle_active_call_status(s, eventbody) == handle_entries(s, sorted(eventbody))

\* ------------------------------------------------------------------------
\* The entries the exchange sends.  A key whose default in the code is ""
\* is given as "" when it is absent; linkedid, whose default in
\* _handle_unbridge is not "", is Missing when it is absent.
\* ------------------------------------------------------------------------

Blank ==
    [chantype |-> "", action |-> "", state |-> "", linkedid |-> "",
     uniqueid |-> "", channel |-> "", channel1 |-> "", channel2 |-> "",
     inbound_trunk_name |-> "", outbound_trunk_name |-> "",
     callernum |-> "", connectednum |-> "",
     callerid1 |-> "", callerid2 |-> "", bridge_time |-> ""]

\* the trunk leg of an inbound call rings
TrunkRing(linkedid, uniqueid, channel) ==
    [Blank EXCEPT !.chantype = "unbridge", !.action = "add", !.state = "Ring",
                  !.linkedid = linkedid, !.uniqueid = uniqueid, !.channel = channel,
                  !.inbound_trunk_name = "TRUNK",
                  !.callernum = ExternalNumber]

\* an extension rings: callernum is the extension, connectednum the caller
ExtRing(action, state, linkedid, uniqueid, channel, callernum) ==
    [Blank EXCEPT !.chantype = "unbridge", !.action = action, !.state = state,
                  !.linkedid = linkedid, !.uniqueid = uniqueid, !.channel = channel,
                  !.callernum = callernum, !.connectednum = ExternalNumber]

UnbridgeDelete(channel) ==
    [Blank EXCEPT !.chantype = "unbridge", !.action = "delete", !.channel = channel]

TrunkRingEntries ==
    {TrunkRing("L1", "", TrunkChannel),
     TrunkRing("L1", "", ""),
     TrunkRing("", "", TrunkChannel),
     TrunkRing(Missing, "L1", TrunkChannel)}

\* L1 is rung through a ring group; L2 is an internal call (no trunk ring)
ExtRingEntries ==
    {ExtRing("add", "Ring", "L1", "", c, x) :
        c \in {ExtChannel, ""}, x \in Extensions \cup {""}}
    \cup {ExtRing("update", "Ringing", "L1", "", ExtChannel, "1001"),
          ExtRing("add", "Ring", "L2", "", ExtChannel, "1000"),
          ExtRing("add", "Ring", "", "", ExtChannel, "1000"),
          ExtRing("add", "Ring", Missing, "L1", ExtChannel, "1000")}

\* an unbridge add whose state is neither Ring nor Ringing
OtherStateEntries ==
    {ExtRing("add", "Up", "L1", "", ExtChannel, "1000")}

UnbridgeDeleteEntries == {UnbridgeDelete(c) : c \in Channels \cup {""}}

UnbridgeEntries ==
    TrunkRingEntries \cup ExtRingEntries \cup OtherStateEntries
    \cup UnbridgeDeleteEntries

\* a bridge between channel1 and channel2; callerid1, callerid2 are the
\* numbers of the two legs
Bridge(action, linkedid, uniqueid, channel1, channel2, bridge_time) ==
    [Blank EXCEPT !.chantype = "bridge", !.action = action,
                  !.linkedid = linkedid, !.uniqueid = uniqueid,
                  !.channel1 = channel1, !.channel2 = channel2,
                  !.callerid1 = IF channel1 = TrunkChannel THEN ExternalNumber
                                ELSE IF channel1 = ExtChannel THEN "1000" ELSE "",
                  !.callerid2 = IF channel2 = TrunkChannel THEN ExternalNumber
                                ELSE IF channel2 = ExtChannel THEN "1000" ELSE "",
                  !.bridge_time = bridge_time]

Outbound(entry, inbound_trunk_name) ==
    [entry EXCEPT !.outbound_trunk_name = "OUT",
                  !.inbound_trunk_name = inbound_trunk_name]

BridgeAddEntries ==
    {Bridge("add", "L1", "", TrunkChannel, ExtChannel, bt) : bt \in {"", FormatTime(0)}}
    \cup {Bridge("add", "", "", TrunkChannel, ExtChannel, FormatTime(0)),
          Bridge("update", "L1", "", TrunkChannel, ExtChannel, FormatTime(0))}

OutboundBridgeEntries ==
    {Outbound(Bridge("add", "L2", "", ExtChannel, TrunkChannel, bt), "") :
        bt \in {"", FormatTime(0)}}
    \cup {Outbound(Bridge("add", "L2", "", ExtChannel, TrunkChannel, FormatTime(0)), "TRUNK"),
          Outbound(Bridge("add", "", "L2", ExtChannel, TrunkChannel, FormatTime(0)), ""),
          Outbound(Bridge("add", "L2", "", ExtChannel, "", FormatTime(0)), "")}

BridgeDelete(channel, channel1, channel2) ==
    [Blank EXCEPT !.chantype = "bridge", !.action = "delete", !.channel = channel,
                  !.channel1 = channel1, !.channel2 = channel2]

BridgeDeleteEntries ==
    {BridgeDelete("", TrunkChannel, ExtChannel),
     BridgeDelete("", ExtChannel, ""),
     BridgeDelete(ExtChannel, "", ""),
     BridgeDelete("", "", "")}

BridgeEntries == BridgeAddEntries \cup OutboundBridgeEntries \cup BridgeDeleteEntries

Entries == UnbridgeEntries \cup BridgeEntries

\* ------------------------------------------------------------------------
\* History variables, computed from the entry and from what was published
\* ------------------------------------------------------------------------

IsRingEntry(entry) ==
    /\ entry.chantype = "unbridge"
    /\ entry.action \in {"add", "update"}
    /\ entry.state \in {"Ring", "Ringing"}

IsTrunkRing(entry) == IsRingEntry(entry) /\ Truthy(entry.inbound_trunk_name)

Count(seq, x) == Cardinality({i \in DOMAIN seq : seq[i] = x})

\* the callernum of an extension-side ring entry joins the arrival order of
\* the call it was processed for, once; the order is forgotten with the call
NextRingOrder(entry, s) ==
    [id \in AllIds |->
        IF id \notin DOMAIN s.active_calls THEN <<>>
        ELSE IF /\ IsRingEntry(entry) /\ ~IsTrunkRing(entry)
                /\ unbridge_linkedid(entry, entry.uniqueid) = id
                /\ s.active_calls[id].state = "ringing"
                /\ Truthy(entry.callernum)
                /\ \A i \in DOMAIN ring_order[id] : ring_order[id][i] # entry.callernum
        THEN Append(ring_order[id], entry.callernum)
        ELSE ring_order[id]]

\* the rows whose call ends in the step that leads to s: the history was
\* following their linkedid (it was in _call_log_meta) and no longer does
ClosedBy(s) ==
    {i \in DOMAIN call_log :
        /\ call_log[i].linkedid \in DOMAIN call_log_meta
        /\ call_log[i].linkedid \notin DOMAIN s.call_log_meta}

Record(entry, s) ==
    /\ trunk_rung' =
          IF IsTrunkRing(entry) /\ Truthy(unbridge_linkedid(entry, entry.uniqueid))
          THEN trunk_rung \cup {unbridge_linkedid(entry, entry.uniqueid)}
          ELSE trunk_rung
    /\ ring_open' =
          [id \in AllIds |->
              IF Count(s.published, Event("call_hangup", id)) > 0 THEN FALSE
              ELSE IF Count(s.published, Event("call_ring", id)) > 0 THEN TRUE
              ELSE ring_open[id]]
    /\ ring_balance' =
          [id \in AllIds |->
              ring_balance[id] + Count(s.published, Event("call_ring", id))
                               - Count(s.published, Event("call_hangup", id))]
    /\ ring_order' = NextRingOrder(entry, s)
    /\ closed_rows' = closed_rows \cup ClosedBy(s)

\* ------------------------------------------------------------------------
\* Response frames of the exchange.  An optional JSON value is the set of
\* its values: {} when the key is absent.  The "message" of a frame is a
\* dict, is absent, or is something else (a list).
\* ------------------------------------------------------------------------

Response(message, challenge, status, response_challenge, top_status) ==
    [message |-> message,                     \* "dict", "absent" or "list"
     challenge |-> challenge,                 \* message.challenge
     status |-> status,                       \* message.status
     response_challenge |-> response_challenge, \* response.challenge
     top_status |-> top_status]               \* status, at top level

\* an optional string that is present and not empty
Given(v) == v # {} /\ v # {""}

\* resp.get("message", {}).get("challenge") fails on a message with no get
challenge_raises(resp) == resp.message = "list"

\* resp.get("message", {}).get("challenge")
\*     or resp.get("response", {}).get("challenge")
get_challenge(resp) ==
    IF resp.message = "dict" /\ Given(resp.challenge)
    THEN resp.challenge
    ELSE resp.response_challenge

\* msg = resp.get("message", {})
\* status = msg.get("status") if isinstance(msg, dict) else resp.get("status")
response_status(resp) ==
    IF resp.message \in {"dict", "absent"}
    THEN (IF resp.message = "dict" THEN resp.status ELSE {})
    ELSE resp.top_status

ChallengeResponses ==
    {Response("dict", c, {0}, {}, {}) : c \in {{"salt"}, {""}, {}}}
    \cup {Response("absent", {}, {}, c, {}) : c \in {{"salt"}, {}}}
    \cup {Response("dict", {}, {}, {"salt"}, {}),
          Response("list", {}, {}, {"salt"}, {})}

LoginResponses ==
    {Response("dict", {}, st, {}, top) : st \in {{0}, {1}, {}}, top \in {{0}, {}}}
    \cup {Response(m, {}, {}, {}, top) : m \in {"absent", "list"}, top \in {{0}, {1}, {}}}

SubscribeResponses ==
    {Response("dict", {}, st, {}, {}) : st \in {{0}, {1}, {}}}

\* ------------------------------------------------------------------------
\* The SSE clients and the threads that dial
\* ------------------------------------------------------------------------

\* the queues of the SSE clients
Queues == {"q1", "q2"}

\* the request threads that call dial_outbound
Threads == {"t1", "t2"}

\* self._cookie = None
NoCookie == 0

\* a queue that was never passed to subscribe_events
NotSubscribed == [state |-> "none", refused |-> FALSE, from |-> 0, to |-> 0]

\* ------------------------------------------------------------------------
\* Actions
\* ------------------------------------------------------------------------

\* the correlator of a monitor that has opened its call log and has
\* processed nothing
Clean ==
    [db |-> TRUE,
     active_calls |-> EmptyDict,
     channel_map |-> EmptyDict,
     call_channels |-> EmptyDict,
     incoming_linkedids |-> {},
     call_log_meta |-> EmptyDict,
     call_log |-> <<>>,
     published |-> <<>>,
     executed |-> <<>>]

Init ==
    /\ active_calls = EmptyDict
    /\ channel_map = EmptyDict
    /\ call_channels = EmptyDict
    /\ incoming_linkedids = {}
    /\ call_log_meta = EmptyDict
    /\ call_log = <<>>
    /\ db = FALSE
    /\ calls_lost = 0
    /\ published = <<>>
    /\ executed = <<>>
    /\ trunk_rung = {}
    /\ ring_open = [id \in AllIds |-> FALSE]
    /\ ring_balance = [id \in AllIds |-> 0]
    /\ ring_order = [id \in AllIds |-> <<>>]
    /\ phase = "idle"
    /\ running = FALSE
    /\ sent = <<>>
    /\ lost_rows = {}
    /\ closed_rows = {}
    /\ link = "none"
    /\ heartbeat = "none"
    /\ extension_status = EmptyDict
    /\ event_queues = <<>>
    /\ queues = [q \in Queues |-> <<>>]
    /\ maxsize = [q \in Queues |-> 0]
    /\ heap = <<>>
    /\ frames = [q \in Queues |-> <<>>]
    /\ subscriber = [q \in Queues |-> NotSubscribed]
    /\ broadcast = <<>>
    /\ cookie = NoCookie
    /\ cookie_old = FALSE
    /\ pc = [t \in Threads |-> "idle"]
    /\ local = [t \in Threads |-> NoCookie]
    /\ http = [t \in Threads |-> <<>>]
    /\ logins = 0
    /\ mark = [t \in Threads |-> 0]
    /\ dialled = [t \in Threads |-> 0]
    /\ processed = [eventbody |-> <<>>, order |-> <<>>]
    /\ replay = Clean
    /\ snapshot = EmptyDict
    /\ snapshot_shared = {}
    /\ snapshot_at_copy = EmptyDict

\* what the correlator keeps in memory
memory == <<active_calls, channel_map, call_channels, incoming_linkedids,
            call_log_meta, calls_lost, trunk_rung, ring_order, closed_rows>>

\* a step that broadcasts nothing and executes no statement
Quiet == published' = <<>> /\ executed' = <<>>

\* what no step of the connection protocol touches
kept == <<call_log, ring_open, ring_balance>>

\* the connection and its heartbeat task
wire == <<link, heartbeat>>

\* the event fan-out and its SSE subscribers
fanout == <<event_queues, queues, maxsize, heap, frames, subscriber, broadcast>>

\* the click-to-dial client and the threads that use it
dial == <<cookie, cookie_old, pc, local, http, logins, mark, dialled>>

\* the last batch and the second run
batch == <<processed, replay>>

\* the reader of the active calls
reader == <<snapshot, snapshot_shared, snapshot_at_copy>>

\* what the steps of the connection protocol leave alone
aside == <<fanout, dial, batch, reader>>

\* the monitor and its correlator
monitor == <<memory, kept, lost_rows, wire, extension_status, published, executed,
             db, phase, running, sent, batch, reader>>

\* the correlator state s becomes the state of the monitor
Commit(s) ==
    /\ active_calls' = s.active_calls
    /\ channel_map' = s.channel_map
    /\ call_channels' = s.call_channels
    /\ incoming_linkedids' = s.incoming_linkedids
    /\ call_log_meta' = s.call_log_meta
    /\ call_log' = s.call_log
    /\ published' = s.published
    /\ executed' = s.executed

\* the entries whose handling can read the clock: a delete (the duration)
\* and an outbound bridge without bridge_time (its timestamp)
ReadsClock(entry) ==
    \/ entry.action = "delete"
    \/ entry.chantype = "bridge" /\ Truthy(entry.outbound_trunk_name)
                                /\ ~Truthy(entry.bridge_time)

ClockReads(entry) == IF ReadsClock(entry) THEN Times ELSE {0}

\* the ids whose record object the reader still shares with the store when
\* the store becomes that of s: the record was ringing and is ringing (a
\* connect stores a new dict, a hangup or a wipe removes the record, and a
\* later ring under the same id stores a new dict)
StillShared(s) ==
    {id \in snapshot_shared :
        /\ id \in DOMAIN active_calls
        /\ id \in DOMAIN s.active_calls
        /\ active_calls[id].state = "ringing"
        /\ s.active_calls[id].state = "ringing"}

\* what the reader sees in the dict it holds: dict(self.active_calls) copied
\* the keys, and the values are the record objects of the store, so that
\* exts.append on a shared record is an append to the reader's list
Observe(s) ==
    /\ snapshot_shared' = StillShared(s)
    /\ snapshot' = [id \in DOMAIN snapshot |->
                      IF id \in StillShared(s) THEN s.active_calls[id]
                      ELSE snapshot[id]]
    /\ UNCHANGED snapshot_at_copy

\* one entry of an ActiveCallStatus notification is processed by the
\* receive loop, while call_log holds at most `rows` rows
HandleWithin(entry, rows) ==
    /\ phase = "receiving"
    /\ \E t \in ClockReads(entry) :
        LET s == handle_entry(Cur(t), entry)
        IN  /\ Len(s.call_log) <= rows
            /\ Commit(s)
            /\ Record(entry, s)
            /\ Observe(s)
            /\ UNCHANGED <<db, calls_lost, phase, running, sent, lost_rows, wire,
                         extension_status, fanout, dial, batch>>

Handle(entry) == HandleWithin(entry, MaxRows)

HandleUnbridge == \E entry \in UnbridgeEntries : Handle(entry)

HandleBridge == \E entry \in BridgeEntries : Handle(entry)

\* start(): the thread runs _run_loop, which opens the call log and enters
\* the connection loop
Start ==
    /\ phase = "idle"
    /\ running' = TRUE
    /\ db' = TRUE
    /\ phase' = "connecting"
    /\ Quiet
    /\ UNCHANGED <<memory, kept, lost_rows, wire, extension_status, aside, sent>>

\* websockets.connect succeeds and _authenticate sends the challenge request
Connect ==
    /\ phase = "connecting"
    /\ phase' = "challenge"
    /\ sent' = <<"challenge">>
    /\ link' = "open"
    /\ heartbeat' = "none"
    /\ Quiet
    /\ UNCHANGED <<memory, kept, lost_rows, extension_status, aside, db, running>>

\* the finally block, had it announced the end of a call it drops
ClearState_announces_hangup ==
    /\ calls_lost + Cardinality(DOMAIN active_calls) <= MaxLostCalls
    /\ calls_lost' = calls_lost + Cardinality(DOMAIN active_calls)
    /\ active_calls' = EmptyDict
    /\ channel_map' = EmptyDict
    /\ call_channels' = EmptyDict
    /\ incoming_linkedids' = {}
    /\ call_log_meta' = EmptyDict
    /\ published' = IF active_calls = EmptyDict THEN <<>>
                    ELSE <<Event("call_hangup",
                                 CHOOSE id \in DOMAIN active_calls : TRUE)>>
    /\ executed' = <<>>
    /\ trunk_rung' = {}
    /\ ring_order' = [id \in AllIds |-> <<>>]
    /\ closed_rows' = DOMAIN call_log

\* the finally block, without _call_log_meta.clear()
ClearState_keeps_history_meta ==
    /\ calls_lost + Cardinality(DOMAIN active_calls) <= MaxLostCalls
    /\ calls_lost' = calls_lost + Cardinality(DOMAIN active_calls)
    /\ active_calls' = EmptyDict
    /\ channel_map' = EmptyDict
    /\ call_channels' = EmptyDict
    /\ incoming_linkedids' = {}
    /\ call_log_meta' = call_log_meta
    /\ published' = <<>>
    /\ executed' = <<>>
    /\ trunk_rung' = {}
    /\ ring_order' = [id \in AllIds |-> <<>>]
    /\ closed_rows' = DOMAIN call_log

\* the finally block of _connection_loop
ClearState ==
    /\ calls_lost + Cardinality(DOMAIN active_calls) <= MaxLostCalls
    /\ calls_lost' = calls_lost + Cardinality(DOMAIN active_calls)
    /\ active_calls' = EmptyDict
    /\ channel_map' = EmptyDict
    /\ call_channels' = EmptyDict
    /\ incoming_linkedids' = {}
    /\ call_log_meta' = EmptyDict
    /\ published' = <<>>
    /\ executed' = <<>>
    /\ trunk_rung' = {}
    /\ ring_order' = [id \in AllIds |-> <<>>]
    /\ closed_rows' = DOMAIN call_log

\* the last row of each connected call that the history still follows, when
\* it is answered and has no duration yet
LostRows ==
    {i \in DOMAIN call_log :
        LET id == call_log[i].linkedid
        IN  /\ id \in DOMAIN active_calls
            /\ active_calls[id].state = "connected"
            /\ id \in DOMAIN call_log_meta
            /\ \A j \in DOMAIN call_log : call_log[j].linkedid = id => j <= i
            /\ call_log[i].direction = "inbound"
            /\ call_log[i].answered = 1
            /\ call_log[i].duration = 0}

\* _connect_and_run is left, by an exception or by the end of the receive
\* loop: the state is cleared and the connection is gone
EndSession ==
    /\ ClearState
    /\ lost_rows' = lost_rows \cup LostRows
    /\ phase' = "wiped"
    /\ sent' = <<>>
    /\ link' = IF link = "none" THEN "none" ELSE "closed"
    /\ heartbeat' = IF heartbeat = "none" THEN "none" ELSE "cancelled"
    /\ extension_status' = EmptyDict
    /\ UNCHANGED <<kept, db, running, aside>>

\* the positions inside _connect_and_run
InSession == {"connecting", "challenge", "login", "subscribe", "receiving"}

\* the session ends: connection refused, socket error, read timeout,
\* WebSocket close, or an unexpected exception
SessionEnd ==
    /\ phase \in InSession
    /\ EndSession

\* the response to the challenge request
ReceiveChallenge(resp) ==
    /\ phase = "challenge"
    /\ IF ~challenge_raises(resp) /\ Given(get_challenge(resp))
       THEN /\ phase' = "login"
            /\ sent' = Append(sent, "login")
            /\ Quiet
            /\ UNCHANGED <<memory, kept, lost_rows, wire, extension_status, aside, db, running>>
       ELSE EndSession

\* the login response taken as a success whatever its status
ReceiveLogin_unchecked(resp) ==
    /\ phase = "login"
    /\ phase' = "subscribe"
    /\ sent' = Append(sent, "subscribe")
    /\ Quiet
    /\ UNCHANGED <<memory, kept, lost_rows, wire, extension_status, aside, db, running>>

\* the response to the login request; _subscribe follows a successful login
ReceiveLogin(resp) ==
    /\ phase = "login"
    /\ IF response_status(resp) = {0}
       THEN /\ phase' = "subscribe"
            /\ sent' = Append(sent, "subscribe")
            /\ Quiet
            /\ UNCHANGED <<memory, kept, lost_rows, wire, extension_status, aside, db, running>>
       ELSE EndSession

\* the response to the subscribe request: any status starts the receive loop
ReceiveSubscribe(resp) ==
    /\ phase = "subscribe"
    /\ phase' = "receiving"
    /\ heartbeat' = "running"
    /\ Quiet
    /\ UNCHANGED <<memory, kept, lost_rows, link, extension_status, aside, db, running,
                   sent>>

Authenticate ==
    \/ \E resp \in ChallengeResponses : ReceiveChallenge(resp)
    \/ \E resp \in LoginResponses : ReceiveLogin(resp)

Subscribe == \E resp \in SubscribeResponses : ReceiveSubscribe(resp)

\* the loop left after the finally block whatever the flag
Backoff_leaves_loop ==
    /\ phase = "wiped"
    /\ phase' = "exited"
    /\ Quiet
    /\ UNCHANGED <<memory, kept, lost_rows, wire, extension_status, aside, db, running, sent>>

\* after the finally block: `if self._running: await asyncio.sleep(...)`,
\* else the `while self._running` test ends the loop
Backoff ==
    /\ phase = "wiped"
    /\ phase' = IF running THEN "sleeping" ELSE "exited"
    /\ Quiet
    /\ UNCHANGED <<memory, kept, lost_rows, wire, extension_status, aside, db, running, sent>>

\* the sleep is over: `while self._running`
Wake ==
    /\ phase = "sleeping"
    /\ phase' = IF running THEN "connecting" ELSE "exited"
    /\ Quiet
    /\ UNCHANGED <<memory, kept, lost_rows, wire, extension_status, aside, db, running, sent>>

\* stop(): the flag is cleared and the event loop is stopped.  The thread
\* reads the flag only after the finally block and after the sleep; at any
\* other position the stopped loop never resumes it.
Stop ==
    /\ running
    /\ running' = FALSE
    /\ phase' = IF phase \in {"wiped", "sleeping"} THEN phase ELSE "stopped"
    /\ Quiet
    /\ UNCHANGED <<memory, kept, lost_rows, wire, extension_status, aside, db, sent>>

\* self._loop.stop() takes effect while the thread sleeps
Halt ==
    /\ ~running
    /\ phase = "sleeping"
    /\ phase' = "stopped"
    /\ Quiet
    /\ UNCHANGED <<memory, kept, lost_rows, wire, extension_status, aside, db, running, sent>>

\* _run_loop after run_until_complete has returned or raised: its finally
\* block closes the database and the event loop, and the thread ends
Terminate ==
    /\ phase \in {"stopped", "exited"}
    /\ phase' = "terminated"
    /\ db' = FALSE
    /\ Quiet
    /\ UNCHANGED <<memory, kept, lost_rows, wire, extension_status, aside, running, sent>>

\* the steps of the monitor other than the handling of an entry
Protocol ==
    \/ Start
    \/ Connect
    \/ Authenticate
    \/ Subscribe
    \/ SessionEnd
    \/ Backoff
    \/ Wake
    \/ Stop
    \/ Halt
    \/ Terminate

Next == Protocol \/ HandleUnbridge \/ HandleBridge

Spec == Init /\ [][Next]_vars

\* The thread of the monitor keeps running: the code after the finally block
\* is executed, and asyncio.sleep(RECONNECT_DELAY) returns.
LiveSpec == Spec /\ WF_vars(Backoff) /\ WF_vars(Wake)

\* ------------------------------------------------------------------------
\* The session seen from the connection: the link, the heartbeat task, the
\* frames that are not notifications of the expected shape, and presence.
\* ------------------------------------------------------------------------

\* the connection is closed by the exchange or fails
LinkDrop ==
    /\ phase \in InSession \ {"connecting"}
    /\ link = "open"
    /\ link' = "closed"
    /\ Quiet
    /\ UNCHANGED <<memory, kept, lost_rows, heartbeat, extension_status, aside, db,
                   phase, running, sent>>

\* _heartbeat_loop: ws.send raises on the closed connection; the loop logs
\* and breaks, and the task is over.  (A send on the open connection
\* changes nothing here.)
HeartbeatFails ==
    /\ phase = "receiving"
    /\ heartbeat = "running"
    /\ link = "closed"
    /\ heartbeat' = "ended"
    /\ Quiet
    /\ UNCHANGED <<memory, kept, lost_rows, link, extension_status, aside, db,
                   phase, running, sent>>

\* the read on the closed connection is retried and the loop goes on
ReceiveClosed_goes_on ==
    /\ phase \in InSession \ {"connecting"}
    /\ link = "closed"
    /\ Quiet
    /\ UNCHANGED <<memory, kept, lost_rows, wire, extension_status, aside, db,
                   phase, running, sent>>

\* the read in progress finds the connection closed: `async for raw in ws`
\* ends or raises ConnectionClosed, _recv_response raises, and
\* _connect_and_run is left
ReceiveClosed ==
    /\ phase \in InSession \ {"connecting"}
    /\ link = "closed"
    /\ EndSession

\* one entry of an ExtensionStatus notification
PresenceEvent(ext, status) ==
    [event |-> "extension_status", extension |-> ext, status |-> status]

HandlePresence(entry) ==
    /\ phase = "receiving"
    /\ IF Truthy(entry.extension)
       THEN /\ extension_status' =
                  [x \in DOMAIN extension_status \cup {entry.extension} |->
                      IF x = entry.extension THEN entry.status
                      ELSE extension_status[x]]
            /\ published' = <<PresenceEvent(entry.extension, entry.status)>>
       ELSE /\ extension_status' = extension_status
            /\ published' = <<>>
    /\ executed' = <<>>
    /\ UNCHANGED <<memory, kept, lost_rows, wire, aside, db, phase, running, sent>>

PresenceEntries ==
    {[extension |-> x, status |-> st] : x \in {"1000", ""}, st \in {"idle", "busy"}}

HandleExtensionStatus == \E entry \in PresenceEntries : HandlePresence(entry)

\* A frame that carries no entry to process.  json: the text parses; top:
\* what the document is; message: what data["message"] is; eventname;
\* eventbody: what msg["eventbody"] is; entry: what its entries are.
Frame(json, top, message, eventname, eventbody, entry) ==
    [json |-> json, top |-> top, message |-> message, eventname |-> eventname,
     eventbody |-> eventbody, entry |-> entry]

\* the handlers iterate msg["eventbody"] and call .get on each element: the
\* keys of a non-empty object and the non-object entries of an array have
\* no .get (AttributeError)
eventbody_raises(frame) ==
    \/ frame.eventbody = "object"
    \/ frame.eventbody = "array" /\ frame.entry = "string"

\* _receive_loop on one frame: TRUE when an exception leaves the loop
frame_raises(frame) ==
    IF ~frame.json THEN FALSE                         \* JSONDecodeError: continue
    ELSE IF frame.top # "object" THEN TRUE            \* data.get: AttributeError
    ELSE IF frame.message # "object" THEN FALSE       \* not a dict: skipped
    ELSE IF frame.eventname \in {"ExtensionStatus", "ActiveCallStatus"}
    THEN eventbody_raises(frame)
    ELSE FALSE                                        \* unknown eventname: logged

\* frames that are not JSON, or JSON of an unexpected shape
OddFrames ==
    {Frame(FALSE, "none", "none", "", "none", "none")}
    \cup {Frame(TRUE, top, "none", "", "none", "none") : top \in {"array", "string"}}
    \cup {Frame(TRUE, "object", "string", "", "none", "none")}
    \cup {Frame(TRUE, "object", "object", name, body, "none") :
             name \in {"ExtensionStatus", "ActiveCallStatus", "Other"},
             body \in {"object", "empty_object"}}
    \cup {Frame(TRUE, "object", "object", name, "array", "string") :
             name \in {"ExtensionStatus", "ActiveCallStatus", "Other"}}

\* the receive loop takes a frame of OddFrames
ReceiveFrame(frame) ==
    /\ phase = "receiving"
    /\ IF frame_raises(frame)
       THEN EndSession
       ELSE /\ Quiet
            /\ UNCHANGED <<memory, kept, lost_rows, wire, extension_status, aside, db,
                           phase, running, sent>>

ReceiveOdd == \E frame \in OddFrames : ReceiveFrame(frame)

\* one inbound call under L1: trunk ring, extension ring, bridge, delete
SessionEntries ==
    {TrunkRing("L1", "", TrunkChannel),
     ExtRing("add", "Ring", "L1", "", ExtChannel, "1000"),
     Bridge("add", "L1", "", TrunkChannel, ExtChannel, FormatTime(0)),
     BridgeDelete("", TrunkChannel, ExtChannel)}

HandleCall == \E entry \in SessionEntries : Handle(entry)

SessionNext ==
    \/ Protocol
    \/ LinkDrop
    \/ HeartbeatFails
    \/ ReceiveClosed
    \/ ReceiveOdd
    \/ HandleExtensionStatus
    \/ HandleCall

\* The thread of the monitor keeps running: a read on a closed connection
\* returns, the code after the finally block is executed, the sleep ends,
\* and _run_loop goes on to its finally block.
SessionSpec ==
    /\ Init
    /\ [][SessionNext]_vars
    /\ WF_vars(ReceiveClosed)
    /\ WF_vars(Backoff)
    /\ WF_vars(Wake)
    /\ WF_vars(Terminate)

\* ------------------------------------------------------------------------
\* Event fan-out.  An event is one dict object: _broadcast_event puts the
\* same object in every queue, so heap[ref] is what the object holds under
\* "event" now, for every queue that holds ref.
\* ------------------------------------------------------------------------

\* the "event" values of the events that are published
EventTypes == {"call_ring", "extension_status"}

\* queue.Queue.full(): maxsize 0 is no limit
full(qs, sizes, q) == sizes[q] > 0 /\ Len(qs[q]) >= sizes[q]

\* a full queue is emptied to make room for the event
put_nowait_empties_full(qs, sizes, q, ref) ==
    IF full(qs, sizes, q) THEN [qs EXCEPT ![q] = <<ref>>]
    ELSE [qs EXCEPT ![q] = Append(@, ref)]

\* q.put_nowait(event) inside try/except: a full queue raises queue.Full,
\* which is dropped
put_nowait(qs, sizes, q, ref) ==
    IF full(qs, sizes, q) THEN qs ELSE [qs EXCEPT ![q] = Append(@, ref)]

\* the loop of _broadcast_event: for q in self._event_queues: q.put_nowait(event)
RECURSIVE enqueue_all(_, _, _, _)
enqueue_all(qs, sizes, list, ref) ==
    IF list = <<>> THEN qs
    ELSE enqueue_all(put_nowait(qs, sizes, Head(list), ref), sizes, Tail(list), ref)

\* the elements of a sequence
Range(seq) == {seq[i] : i \in DOMAIN seq}

\* seq without its occurrences of x
RECURSIVE without(_, _)
without(seq, x) ==
    IF seq = <<>> THEN <<>>
    ELSE IF Head(seq) = x THEN without(Tail(seq), x)
    ELSE <<Head(seq)>> \o without(Tail(seq), x)

\* subscribe_events(queue), for a queue of the given maxsize
SubscribeEvents(q, size, kind) ==
    /\ subscriber[q].state = "none"
    /\ maxsize' = [maxsize EXCEPT ![q] = size]
    /\ event_queues' = Append(event_queues, q)
    /\ subscriber' = [subscriber EXCEPT ![q] =
                         [state |-> kind, refused |-> FALSE,
                          from |-> Len(heap), to |-> 0]]
    /\ UNCHANGED <<queues, heap, frames, broadcast, monitor, dial>>

\* GET /api/events: q = queue.Queue(); pbx.subscribe_events(q)
ApiEvents == \E q \in Queues : SubscribeEvents(q, 0, "streaming")

\* a caller subscribes a queue with a maxsize
SubscribeBounded == \E q \in Queues : SubscribeEvents(q, 1, "subscribed")

\* _enqueue_all(event), for a new event object of the given type
Publish(type) ==
    /\ Len(heap) < MaxEvents
    /\ LET ref == Len(heap) + 1
       IN  /\ heap' = Append(heap, type)
           /\ broadcast' = Append(broadcast, type)
           /\ queues' = enqueue_all(queues, maxsize, event_queues, ref)
           /\ subscriber' =
                 [q \in Queues |->
                     IF q \in Range(event_queues) /\ full(queues, maxsize, q)
                     THEN [subscriber[q] EXCEPT !.refused = TRUE]
                     ELSE subscriber[q]]
    /\ UNCHANGED <<event_queues, maxsize, frames, monitor, dial>>

BroadcastEvent == \E type \in EventTypes : Publish(type)

\* the stream reads the head of the queue and leaves it there
Consume_keeps_head(q) ==
    /\ subscriber[q].state \in {"streaming", "subscribed"}
    /\ queues[q] # <<>>
    /\ Len(frames[q]) < MaxEvents
    /\ LET ref == Head(queues[q])
           event_type == IF heap[ref] = Missing THEN "message" ELSE heap[ref]
       IN  /\ frames' = [frames EXCEPT ![q] = Append(@, [ref |-> ref, type |-> event_type])]
           /\ heap' = [heap EXCEPT ![ref] = Missing]
    /\ UNCHANGED <<queues, event_queues, maxsize, subscriber, broadcast, monitor, dial>>

\* stream(): event = q.get(); event_type = event.pop("event", "message");
\* the frame is `event: <event_type>` and `data:` the rest of the object
Consume(q) ==
    /\ subscriber[q].state \in {"streaming", "subscribed"}
    /\ queues[q] # <<>>
    /\ LET ref == Head(queues[q])
           event_type == IF heap[ref] = Missing THEN "message" ELSE heap[ref]
       IN  /\ frames' = [frames EXCEPT ![q] = Append(@, [ref |-> ref, type |-> event_type])]
           /\ heap' = [heap EXCEPT ![ref] = Missing]
    /\ queues' = [queues EXCEPT ![q] = Tail(@)]
    /\ UNCHANGED <<event_queues, maxsize, subscriber, broadcast, monitor, dial>>

Stream == \E q \in Queues : Consume(q)

\* the client goes away: the finally of stream() calls unsubscribe_events(q)
Unsubscribe(q) ==
    /\ subscriber[q].state \in {"streaming", "subscribed"}
    /\ event_queues' = without(event_queues, q)
    /\ subscriber' = [subscriber EXCEPT ![q].state = "closed", ![q].to = Len(heap)]
    /\ UNCHANGED <<queues, maxsize, heap, frames, broadcast, monitor, dial>>

CloseStream == \E q \in Queues : Unsubscribe(q)

FanoutNext ==
    \/ ApiEvents
    \/ SubscribeBounded
    \/ BroadcastEvent
    \/ Stream
    \/ CloseStream

FanoutSpec == Init /\ [][FanoutNext]_vars

\* ------------------------------------------------------------------------
\* Click-to-dial.  A thread is at a position of dial_outbound: "get1" and
\* "get2" before the two calls of _get_cookie, "chal", "login" and "dial"
\* (followed by 1 or 2) while a request of that kind waits for its response.
\* Threads run in turn between these positions.
\* ------------------------------------------------------------------------

\* the position named `at` in the first or second attempt of the dial
At(at, attempt) == IF attempt = 1 THEN at \o "1" ELSE at \o "2"

Attempts == {1, 2}

\* a request is posted by thread th; "error", "cookie" and "drop" record a
\* failed request, a login that gave a cookie, and the cookie dropped
Log(th, what) == [http EXCEPT ![th] = Append(@, what)]

\* dial_outbound(extension, number) is called
StartDial(th) ==
    /\ pc[th] = "idle"
    /\ dialled[th] < MaxDials
    /\ dialled' = [dialled EXCEPT ![th] = @ + 1]
    /\ pc' = [pc EXCEPT ![th] = "get1"]
    /\ http' = [http EXCEPT ![th] = <<>>]
    /\ UNCHANGED <<cookie, cookie_old, local, logins, mark, monitor, fanout>>

\* _get_cookie: the cached cookie if there is one and it is recent, else
\* _authenticate posts the challenge request; with the cookie in hand
\* dial_outbound posts the dialOutbound request
GetCookie(th, attempt) ==
    /\ pc[th] = At("get", attempt)
    /\ IF cookie # NoCookie /\ ~cookie_old
       THEN /\ local' = [local EXCEPT ![th] = cookie]
            /\ http' = Log(th, "dialOutbound")
            /\ pc' = [pc EXCEPT ![th] = At("dial", attempt)]
       ELSE /\ http' = Log(th, "challenge")
            /\ pc' = [pc EXCEPT ![th] = At("chal", attempt)]
            /\ UNCHANGED local
    /\ UNCHANGED <<cookie, cookie_old, logins, mark, dialled, monitor, fanout>>

\* the response to the challenge request: with a challenge the login is
\* posted; an error, or no challenge, raises UCMError out of dial_outbound
ChallengeResponse(th, attempt, r) ==
    /\ pc[th] = At("chal", attempt)
    /\ IF r = "challenge"
       THEN /\ http' = Log(th, "login")
            /\ pc' = [pc EXCEPT ![th] = At("login", attempt)]
       ELSE /\ http' = Log(th, "error")
            /\ pc' = [pc EXCEPT ![th] = "failed"]
    /\ UNCHANGED <<cookie, cookie_old, local, logins, mark, dialled, monitor, fanout>>

\* the response to the login: the cookie is cached with its time, returned
\* by _get_cookie, and the dialOutbound request is posted; an error, or no
\* cookie, raises UCMError out of dial_outbound
LoginResponse(th, attempt, r) ==
    /\ pc[th] = At("login", attempt)
    /\ IF r = "cookie"
       THEN /\ logins' = logins + 1
            /\ cookie' = logins + 1
            /\ cookie_old' = FALSE
            /\ local' = [local EXCEPT ![th] = logins + 1]
            /\ http' = [http EXCEPT ![th] = @ \o <<"cookie", "dialOutbound">>]
            /\ pc' = [pc EXCEPT ![th] = At("dial", attempt)]
       ELSE /\ http' = Log(th, "error")
            /\ pc' = [pc EXCEPT ![th] = "failed"]
            /\ UNCHANGED <<cookie, cookie_old, local, logins>>
    /\ UNCHANGED <<mark, dialled, monitor, fanout>>

\* every failed dialOutbound drops the cookie and tries again
DialResponse_retries_again(th, attempt, r) ==
    /\ pc[th] = At("dial", attempt)
    /\ IF r = "ok"
       THEN /\ pc' = [pc EXCEPT ![th] = "done"]
            /\ UNCHANGED <<cookie, mark, http>>
       ELSE /\ cookie' = NoCookie
            /\ mark' = [mark EXCEPT ![th] = logins]
            /\ http' = [http EXCEPT ![th] = @ \o <<"error", "drop">>]
            /\ pc' = [pc EXCEPT ![th] = "get2"]
    /\ UNCHANGED <<cookie_old, local, logins, dialled, monitor, fanout>>

\* the response to dialOutbound: an error of the first request drops the
\* cached cookie and goes to the second _get_cookie; an error of the second
\* raises UCMError out of dial_outbound
DialResponse(th, attempt, r) ==
    /\ pc[th] = At("dial", attempt)
    /\ IF r = "ok"
       THEN /\ pc' = [pc EXCEPT ![th] = "done"]
            /\ UNCHANGED <<cookie, mark, http>>
       ELSE IF attempt = 1
       THEN /\ cookie' = NoCookie
            /\ mark' = [mark EXCEPT ![th] = logins]
            /\ http' = [http EXCEPT ![th] = @ \o <<"error", "drop">>]
            /\ pc' = [pc EXCEPT ![th] = "get2"]
       ELSE /\ http' = Log(th, "error")
            /\ pc' = [pc EXCEPT ![th] = "failed"]
            /\ UNCHANGED <<cookie, mark>>
    /\ UNCHANGED <<cookie_old, local, logins, dialled, monitor, fanout>>

\* dial_outbound has returned or raised
Return(th) ==
    /\ pc[th] \in {"done", "failed"}
    /\ pc' = [pc EXCEPT ![th] = "idle"]
    /\ UNCHANGED <<cookie, cookie_old, local, http, logins, mark, dialled, monitor, fanout>>

\* SESSION_TIMEOUT seconds have passed since _cookie_time
Expire ==
    /\ cookie # NoCookie
    /\ ~cookie_old
    /\ cookie_old' = TRUE
    /\ UNCHANGED <<cookie, pc, local, http, logins, mark, dialled, monitor, fanout>>

Enter == \E th \in Threads : StartDial(th)

CookieStep == \E th \in Threads, attempt \in Attempts : GetCookie(th, attempt)

AuthStep ==
    \E th \in Threads, attempt \in Attempts :
        \/ \E r \in {"challenge", "empty", "error"} : ChallengeResponse(th, attempt, r)
        \/ \E r \in {"cookie", "empty", "error"} : LoginResponse(th, attempt, r)

DialStep ==
    \E th \in Threads, attempt \in Attempts, r \in {"ok", "error"} :
        DialResponse(th, attempt, r)

Leave == \E th \in Threads : Return(th)

DialNext == Enter \/ CookieStep \/ AuthStep \/ DialStep \/ Leave \/ Expire

DialSpec == Init /\ [][DialNext]_vars

\* Calls that follow one another, well-formed, under ids and channels that
\* come again: an inbound call (trunk ring, extension ring, bridge, delete)
\* under L1 or L2, and an outbound call (bridge add, bridge update, delete)
\* under L1.
HistoryEntries ==
    {TrunkRing(id, "", TrunkChannel) : id \in Ids}
    \cup {ExtRing("add", "Ring", id, "", ExtChannel, "1000") : id \in Ids}
    \cup {Bridge("add", id, "", TrunkChannel, ExtChannel, FormatTime(0)) : id \in Ids}
    \cup {Outbound(Bridge(a, "L1", "", ExtChannel, TrunkChannel, FormatTime(0)), "") :
             a \in {"add", "update"}}
    \cup {BridgeDelete("", TrunkChannel, ExtChannel)}

HandleHistory == \E entry \in HistoryEntries : HandleWithin(entry, MaxHistoryRows)

HistoryNext == Protocol \/ HandleHistory

HistorySpec == Init /\ [][HistoryNext]_vars

\* ------------------------------------------------------------------------
\* Entries that test the attribution of an entry to a call: bridges with
\* and without linkedid, with their channels in channel1/channel2 or in
\* channel, bridges between two extensions, and entries that name nothing.
\* ------------------------------------------------------------------------

\* a bridge entry that names its channel in `channel`
OnChannel(entry, channel) == [entry EXCEPT !.channel = channel]

AttributionEntries ==
    {TrunkRing("L1", "", TrunkChannel),
     ExtRing("add", "Ring", "L1", "", ExtChannel, "1000"),
     ExtRing("add", "Ring", "L2", "", ExtChannel, "1000"),
     ExtRing("add", "Ring", "", "", "", "1000"),
     TrunkRing("", "", ""),
     Bridge("add", "L1", "", TrunkChannel, ExtChannel, FormatTime(0)),
     Bridge("add", "", "", TrunkChannel, ExtChannel, FormatTime(0)),
     OnChannel(Bridge("update", "", "", "", "", FormatTime(0)), ExtChannel),
     Bridge("add", "L1", "", ExtChannel, "", FormatTime(0)),
     Outbound(Bridge("add", "", "L2", ExtChannel, TrunkChannel, FormatTime(0)), ""),
     Outbound(Bridge("add", "", "", ExtChannel, TrunkChannel, FormatTime(0)), ""),
     Outbound(Bridge("add", "L2", "", ExtChannel, "", FormatTime(0)), "")}
    \cup {UnbridgeDelete(TrunkChannel), UnbridgeDelete("")}
    \cup {BridgeDelete("", TrunkChannel, ExtChannel), BridgeDelete("", "", "")}

HandleAttribution == \E entry \in AttributionEntries : Handle(entry)

\* one session of the monitor
AttributionNext ==
    \/ Start
    \/ Connect
    \/ Authenticate
    \/ Subscribe
    \/ HandleAttribution

AttributionSpec == Init /\ [][AttributionNext]_vars

\* ------------------------------------------------------------------------
\* Notifications of several entries, and a second run of the correlator
\* that is fed the same notifications from a clean state and reads its own
\* clock.
\* ------------------------------------------------------------------------

\* the entries of a ring notification: the trunk leg of the inbound call L1
\* (with its linkedid, or with its uniqueid only) and two extensions of its
\* ring group
RingBatchEntries ==
    {TrunkRing("L1", "", TrunkChannel),
     TrunkRing(Missing, "L1", TrunkChannel),
     ExtRing("add", "Ring", "L1", "", ExtChannel, "1000"),
     ExtRing("add", "Ring", "L1", "", ExtChannel, "1001")}

\* the entries that come one per notification: the bridge of L1 (with or
\* without bridge_time), the bridge of an outbound call under L2 that
\* carries no bridge_time, and the delete of both channels
SingleEntries ==
    {Bridge("add", "L1", "", TrunkChannel, ExtChannel, ""),
     Bridge("add", "L1", "", TrunkChannel, ExtChannel, FormatTime(0)),
     Outbound(Bridge("add", "L2", "", ExtChannel, TrunkChannel, ""), ""),
     BridgeDelete("", TrunkChannel, ExtChannel)}

RECURSIVE Lists(_, _)
\* the lists of at most n members of set
Lists(set, n) ==
    IF n = 0 THEN {<<>>}
    ELSE Lists(set, n - 1)
         \cup {Append(list, x) : list \in Lists(set, n - 1), x \in set}

\* the eventbody of a ring notification
RingBatches == Lists(RingBatchEntries, MaxBatch) \ {<<>>}

\* the notifications that are processed twice: the ring notifications of
\* the trunk leg and of one extension, and the single entries
ReplayBatches ==
    (Lists({TrunkRing("L1", "", TrunkChannel),
            ExtRing("add", "Ring", "L1", "", ExtChannel, "1000")}, MaxBatch) \ {<<>>})
    \cup {<<entry>> : entry \in SingleEntries}

\* the notifications of an inbound call: it rings, is bridged, is deleted
CallNotifications ==
    RingBatches
    \cup {<<Bridge("add", "L1", "", TrunkChannel, ExtChannel, FormatTime(0))>>,
          <<BridgeDelete("", TrunkChannel, ExtChannel)>>}

\* the second run as the state its handlers start from
Again(t) ==
    [now |-> t,
     active_calls |-> replay.active_calls,
     channel_map |-> replay.channel_map,
     call_channels |-> replay.call_channels,
     incoming_linkedids |-> replay.incoming_linkedids,
     call_log_meta |-> replay.call_log_meta,
     call_log |-> replay.call_log,
     db |-> replay.db,
     fault |-> {},
     published |-> <<>>,
     executed |-> <<>>]

\* what the handlers leave of the state r
Left(r) == [f \in DOMAIN Clean |-> r[f]]

\* the instants the clock can show while the notification is processed
BatchClock(eventbody) ==
    IF \E i \in DOMAIN eventbody : ReadsClock(eventbody[i]) THEN Times ELSE {0}

\* the entries of a notification, each with its place in the delivery
Numbered(eventbody) ==
    [i \in DOMAIN eventbody |-> eventbody[i] @@ [position |-> i]]

\* the places in the delivery of the entries of list
Positions(list) == [i \in DOMAIN list |-> list[i].position]

\* one ActiveCallStatus notification is processed by the receive loop
HandleBatch(eventbody) ==
    /\ phase = "receiving"
    /\ \E t \in BatchClock(eventbody) :
        LET s == handle_active_call_status(Cur(t), Numbered(eventbody))
        IN  /\ Len(s.call_log) <= MaxRows
            /\ Commit(s)
            /\ processed' = [eventbody |-> eventbody,
                             order |-> Positions(sorted(Numbered(eventbody)))]
            /\ UNCHANGED <<db, calls_lost, phase, running, sent, lost_rows, wire,
                           extension_status, fanout, dial, reader, trunk_rung,
                           ring_open, ring_balance, ring_order, closed_rows,
                           replay>>

HandleActiveCallStatus == \E eventbody \in CallNotifications : HandleBatch(eventbody)

\* one session of the monitor
BatchNext ==
    \/ Start
    \/ Connect
    \/ Authenticate
    \/ Subscribe
    \/ HandleActiveCallStatus

BatchSpec == Init /\ [][BatchNext]_vars

\* one ActiveCallStatus notification is processed by the receive loop, and
\* by the second run; each run reads its own clock
HandleTwice(eventbody) ==
    /\ phase = "receiving"
    /\ \E t, u \in Times :
        LET s == handle_active_call_status(Cur(t), eventbody)
            r == handle_active_call_status(Again(u), eventbody)
        IN  /\ Len(s.call_log) <= MaxRows
            /\ Commit(s)
            /\ replay' = Left(r)
            /\ UNCHANGED <<db, calls_lost, phase, running, sent, lost_rows, wire,
                           extension_status, fanout, dial, reader, trunk_rung,
                           ring_open, ring_balance, ring_order, closed_rows,
                           processed>>

Replay == \E eventbody \in ReplayBatches : HandleTwice(eventbody)

\* one session of the monitor and of its second run
ReplayNext ==
    \/ Start
    \/ Connect
    \/ Authenticate
    \/ Subscribe
    \/ Replay

ReplaySpec == Init /\ [][ReplayNext]_vars

\* ------------------------------------------------------------------------
\* A reader of the active calls: a request thread of the web application
\* calls get_active_calls while the monitor processes notifications.
\* ------------------------------------------------------------------------

\* get_active_calls: under the lock, a new dict with the keys of
\* active_calls and the record objects of active_calls as its values
GetActiveCalls ==
    /\ snapshot' = active_calls
    /\ snapshot_shared' = DOMAIN active_calls
    /\ snapshot_at_copy' = active_calls
    /\ UNCHANGED <<memory, kept, lost_rows, wire, extension_status, published,
                   executed, db, phase, running, sent, fanout, dial, batch>>

\* one inbound call under L1 that rings two extensions of a ring group
ReaderEntries ==
    SessionEntries \cup {ExtRing("add", "Ring", "L1", "", ExtChannel, "1001")}

HandleObserved == \E entry \in ReaderEntries : Handle(entry)

ReaderNext ==
    \/ Protocol
    \/ GetActiveCalls
    \/ HandleObserved

ReaderSpec == Init /\ [][ReaderNext]_vars

\* ------------------------------------------------------------------------
\* A second run whose call log fails: it has no database, or statements of
\* its history writes raise.
\* ------------------------------------------------------------------------

\* the statements of the history writes
WriteOps == {"insert_inbound", "update_answered", "insert_outbound", "update_duration"}

\* _init_call_log_db of the second run: no db_path, or sqlite3.connect or
\* the CREATE TABLE raises, and self._db is None
OpenFails ==
    /\ phase = "connecting"
    /\ replay.db
    /\ replay' = [replay EXCEPT !.db = FALSE]
    /\ UNCHANGED <<memory, kept, lost_rows, wire, extension_status, published,
                   executed, db, phase, running, sent, fanout, dial, reader,
                   processed>>

\* one ActiveCallStatus notification is processed by the receive loop, all
\* writes succeeding, and by the second run, where the statements of
\* `fault` raise
HandleFaulty(eventbody) ==
    /\ phase = "receiving"
    /\ \E t \in BatchClock(eventbody), fault \in SUBSET WriteOps :
        LET s == handle_active_call_status(Cur(t), eventbody)
            r == handle_active_call_status([Again(t) EXCEPT !.fault = fault],
                                           eventbody)
        IN  /\ Len(s.call_log) <= MaxRows
            /\ Commit(s)
            /\ replay' = Left(r)
            /\ UNCHANGED <<db, calls_lost, phase, running, sent, lost_rows, wire,
                           extension_status, fanout, dial, reader, trunk_rung,
                           ring_open, ring_balance, ring_order, closed_rows,
                           processed>>

ReplayFaulty == \E eventbody \in ReplayBatches : HandleFaulty(eventbody)

\* one session of the monitor and of the second run
FaultNext ==
    \/ Start
    \/ OpenFails
    \/ Connect
    \/ Authenticate
    \/ Subscribe
    \/ ReplayFaulty

FaultSpec == Init /\ [][FaultNext]_vars

\* ------------------------------------------------------------------------
\* Properties of the correlator
\* ------------------------------------------------------------------------

\* the state of the CallRecord of id in the store `calls`
RecordState(calls, id) ==
    IF id \in DOMAIN calls THEN calls[id].state ELSE "absent"

IsBridgeAdd(entry) ==
    entry.chantype = "bridge" /\ entry.action \in {"add", "update"}

DeleteEntries == UnbridgeDeleteEntries \cup BridgeDeleteEntries

\* the linkedid a delete entry resolves to in the current state, or NoneV
delete_linked(entry) ==
    IF entry.chantype = "unbridge"
    THEN unbridge_delete_linked(Cur(0), entry)
    ELSE bridge_delete_linked(Cur(0), entry)

\* the channels a delete entry discards
delete_gone(entry) ==
    IF entry.chantype = "unbridge" THEN {entry.channel}
    ELSE {bridge_channels(entry)[i] : i \in DOMAIN bridge_channels(entry)}

\* the delete entry takes the last channel of the linkedid it resolves to
TakesLastChannel(entry) ==
    /\ Truthy(delete_linked(entry))
    /\ remaining_channels(Cur(0), delete_linked(entry), delete_gone(entry)) = {}

\* C1: from the creation of a CallRecord to its removal exactly one call_ring
\* is published for its id: the step that creates the record publishes one,
\* no step publishes one for an id that already has a record (ringing or
\* connected), and none is published without a record being created.
C1_OneCallRingPerRecord ==
    [][\A id \in AllIds :
          LET rings == Count(published', Event("call_ring", id))
          IN  /\ (id \notin DOMAIN active_calls /\ id \in DOMAIN active_calls')
                    => rings = 1
              /\ id \in DOMAIN active_calls => rings = 0
              /\ id \notin DOMAIN active_calls' => rings = 0]_vars

\* a ring group has grown to two extensions and the growth published nothing
C1_GroupGrewSilently ==
    \E id \in DOMAIN active_calls :
        /\ active_calls[id].state = "ringing"
        /\ Len(active_calls[id].extensions) >= 2
        /\ published = <<>>

\* C2: every id with a CallRecord is a key of _call_channels with a
\* non-empty channel set.
C2_RecordHasChannels ==
    \A id \in DOMAIN active_calls :
        id \in DOMAIN call_channels /\ call_channels[id] # {}

\* C3: a bridge add/update for an id whose CallRecord is already connected
\* leaves active_calls unchanged and publishes nothing.
C3_DuplicateBridgeIsNoOp ==
    [][\A entry \in BridgeEntries :
          (/\ IsBridgeAdd(entry)
           /\ RecordState(active_calls,
                          bridge_linkedid(Cur(0), entry, entry.uniqueid)) = "connected"
           /\ Handle(entry))
          => (active_calls' = active_calls /\ published' = <<>>)]_vars

\* C4: a delete that takes the last channel of the id it resolves to leaves
\* the id without CallRecord, out of _incoming_linkedids, without entry in
\* _call_channels and without _call_log_meta; it publishes exactly one
\* call_hangup for the id if there was a CallRecord (and nothing if not).
C4_LastChannelEndsCall ==
    [][\A entry \in DeleteEntries :
          (TakesLastChannel(entry) /\ Handle(entry))
          => LET linked == delete_linked(entry)
             IN  /\ linked \notin DOMAIN active_calls'
                 /\ linked \notin incoming_linkedids'
                 /\ linked \notin DOMAIN call_channels'
                 /\ linked \notin DOMAIN call_log_meta'
                 /\ published' = IF linked \in DOMAIN active_calls
                                 THEN <<Event("call_hangup", linked)>>
                                 ELSE <<>>]_vars

\* an inbound call has just ended: its hangup is out and nothing is left of it
C4_CallEnded ==
    \E id \in Ids :
        /\ published = <<Event("call_hangup", id)>>
        /\ id \notin DOMAIN active_calls
        /\ id \notin incoming_linkedids
        /\ id \notin DOMAIN call_channels
        /\ id \notin DOMAIN call_log_meta

\* C5: in every prefix of the published events and for every id, there are
\* at most as many call_hangup as call_ring, and a call_hangup or a
\* call_connect comes only while a call_ring of the id is not yet followed
\* by a call_hangup of the id.
C5_HangupAndConnectFollowRing ==
    [][/\ Len(published') <= 1
       /\ \A id \in AllIds :
            /\ ring_balance'[id] >= 0
            /\ (Count(published', Event("call_hangup", id))
                + Count(published', Event("call_connect", id)) > 0)
               => ring_open[id]]_vars

\* a call_hangup has used up the one call_ring of its id
C5_HangupBalancesRing ==
    \E id \in AllIds :
        /\ published = <<Event("call_hangup", id)>>
        /\ ring_balance[id] = 0
        /\ ~ring_open[id]

\* the changes of state a CallRecord can go through
RecordMoves ==
    {<<"absent", "ringing">>, <<"ringing", "ringing">>, <<"ringing", "connected">>,
     <<"ringing", "absent">>, <<"connected", "absent">>}

\* C6: the state of the CallRecord of an id changes only along
\* absent->ringing, ringing->ringing, ringing->connected, ringing->absent
\* and connected->absent: never absent->connected, never connected->ringing.
C6_RecordLifecycle ==
    [][\A id \in AllIds :
          LET before == RecordState(active_calls, id)
              after == RecordState(active_calls', id)
          IN  before # after => <<before, after>> \in RecordMoves]_vars

\* a ringing record has just become connected
C6_RingingBecameConnected ==
    \E id \in DOMAIN active_calls :
        /\ active_calls[id].state = "connected"
        /\ published = <<Event("call_connect", id)>>
        /\ ring_open[id]

\* C7: every key of active_calls is in _incoming_linkedids, and an event is
\* published only for an id for which a ring entry with inbound_trunk_name
\* was seen.
C7_OnlyInboundSurfaced ==
    /\ DOMAIN active_calls \subseteq incoming_linkedids
    /\ \A i \in DOMAIN published : published[i].uniqueid \in trunk_rung

\* the bridge of an outbound call went to the history and to nobody else
C7_OutboundOnlyLogged ==
    \E id \in Ids :
        /\ executed = <<Stmt("insert_outbound", id)>>
        /\ published = <<>>
        /\ id \notin DOMAIN active_calls
        /\ id \notin incoming_linkedids

\* C8: the extensions of a ringing CallRecord are the distinct non-empty
\* callernum of the extension-side ring entries taken for its id, in the
\* order of their first arrival; a ring entry for an id whose record is
\* connected does not change active_calls.
C8_ExtensionsInArrivalOrder ==
    [][/\ \A id \in DOMAIN active_calls' :
            active_calls'[id].state = "ringing"
            => active_calls'[id].extensions = ring_order'[id]
       /\ \A entry \in TrunkRingEntries \cup ExtRingEntries :
            (/\ RecordState(active_calls,
                            unbridge_linkedid(entry, entry.uniqueid)) = "connected"
             /\ Handle(entry))
            => active_calls' = active_calls]_vars

\* a ring group lists its extensions as they rang, not as they sort
C8_RangOutOfOrder ==
    \E id \in DOMAIN active_calls :
        /\ active_calls[id].state = "ringing"
        /\ active_calls[id].extensions = <<"1001", "1000">>

\* C9: every id of _incoming_linkedids was, since the last wipe, the
\* linkedid of an unbridge add/update in state Ring or Ringing that carried
\* inbound_trunk_name.
C9_IncomingCameByTrunk ==
    incoming_linkedids \subseteq trunk_rung

\* an id is known as inbound before any extension rang for it
C9_InboundBeforeRecord ==
    \E id \in incoming_linkedids :
        id \in trunk_rung /\ id \notin DOMAIN active_calls

\* C10: when the last channel of an inbound call is deleted, the duration of
\* its row is written if and only if the call was answered (its CallRecord
\* was connected by a bridge add/update), with or without bridge_time.
C10_DurationIffAnswered ==
    [][\A id \in DOMAIN active_calls :
          (/\ Count(published', Event("call_hangup", id)) = 1
           /\ id \in DOMAIN call_log_meta)
          => (Count(executed', Stmt("update_duration", id)) = 1
              <=> active_calls[id].state = "connected")]_vars

\* ------------------------------------------------------------------------
\* Properties of the call log
\* ------------------------------------------------------------------------

\* the indices of the rows of `rows` whose linkedid is id
RowsOf(rows, id) == {i \in DOMAIN rows : rows[i].linkedid = id}

\* C11: every row with duration > 0 has answered = 1; no duration is
\* negative; and the duration that a step writes for an id is
\* max(0, now - bridge_time), for the bridge_time kept for the id and an
\* instant now of the clock.
C11_DurationOnlyIfAnswered ==
    /\ [](\A i \in DOMAIN call_log :
            /\ call_log[i].duration >= 0
            /\ call_log[i].duration > 0 => call_log[i].answered = 1)
    /\ [][\A id \in AllIds :
            Count(executed', Stmt("update_duration", id)) > 0
            => /\ id \in DOMAIN call_log_meta
               /\ \E t \in Times :
                    \A i \in RowsOf(call_log', id) :
                        call_log'[i].duration =
                            Max(0, t - ParseTime(call_log_meta[id].bridge_time))]_vars

\* a row was appended to call_log by the step
RowInserted == Len(call_log') = Len(call_log) + 1

\* the step set answered on row i, which was there and not answered
BecameAnswered(i) ==
    /\ i \in DOMAIN call_log /\ i \in DOMAIN call_log'
    /\ call_log[i].answered = 0
    /\ call_log'[i].answered = 1

IsExtRing(entry) == IsRingEntry(entry) /\ ~IsTrunkRing(entry)

\* C12: an inbound row with answered = 1 stands for an id that had an
\* extension-side ring entry and, later, a bridge add/update resolved to
\* it: only the handling of an entry changes call_log; an inbound row is
\* inserted, not answered, only by an extension-side ring entry for its
\* linkedid; and an inbound row becomes answered only by a bridge
\* add/update resolved to its linkedid.
C12_AnsweredAfterRingAndBridge ==
    [][call_log' # call_log =>
          /\ phase = "receiving"
          /\ \A entry \in Entries :
                Handle(entry) =>
                  /\ (RowInserted /\ call_log'[Len(call_log')].direction = "inbound")
                     => /\ IsExtRing(entry)
                        /\ unbridge_linkedid(entry, entry.uniqueid)
                               = call_log'[Len(call_log')].linkedid
                        /\ call_log'[Len(call_log')].answered = 0
                  /\ \A i \in DOMAIN call_log :
                        (call_log[i].direction = "inbound" /\ BecameAnswered(i))
                        => /\ IsBridgeAdd(entry)
                           /\ bridge_linkedid(Cur(0), entry, entry.uniqueid)
                                  = call_log[i].linkedid]_vars

\* an inbound row has just been marked as answered
C12_InboundRowAnswered ==
    \E i \in DOMAIN call_log :
        /\ call_log[i].direction = "inbound"
        /\ call_log[i].answered = 1
        /\ executed = <<Stmt("update_answered", call_log[i].linkedid)>>

\* the row of the call that id names now: the last row with this linkedid
LastRowOf(rows, id) ==
    CHOOSE i \in RowsOf(rows, id) : \A j \in RowsOf(rows, id) : j <= i

\* C13: a bridge add/update for an id whose CallRecord is ringing connects
\* it, so that a call that is still ringing when its last channel goes had
\* no bridge; the hangup of such a call follows its call_ring, is the only
\* event of the step, writes nothing to call_log, and the row of the call
\* has answered = 0 and duration = 0.
C13_MissedCall ==
    [][/\ \A entry \in BridgeEntries :
            LET id == bridge_linkedid(Cur(0), entry, entry.uniqueid)
            IN  (/\ IsBridgeAdd(entry)
                 /\ RecordState(active_calls, id) = "ringing"
                 /\ Handle(entry))
                => RecordState(active_calls', id) = "connected"
       /\ \A id \in DOMAIN active_calls :
            (/\ active_calls[id].state = "ringing"
             /\ Count(published', Event("call_hangup", id)) > 0)
            => /\ ring_open[id]
               /\ published' = <<Event("call_hangup", id)>>
               /\ executed' = <<>>
               /\ RowsOf(call_log', id) # {}
               /\ LET row == call_log'[LastRowOf(call_log', id)]
                  IN  /\ row.direction = "inbound"
                      /\ row.answered = 0
                      /\ row.duration = 0]_vars

\* a call has just been missed: it rang, it is gone, its row is untouched
C13_CallMissed ==
    \E id \in Ids :
        /\ published = <<Event("call_hangup", id)>>
        /\ executed = <<>>
        /\ RowsOf(call_log, id) # {}
        /\ call_log[LastRowOf(call_log, id)].answered = 0
        /\ call_log[LastRowOf(call_log, id)].duration = 0

\* a bridge add/update of an outbound call: outbound_trunk_name, no
\* inbound_trunk_name, and an id that is not known as inbound
IsOutboundBridge(entry) ==
    /\ IsBridgeAdd(entry)
    /\ Truthy(entry.outbound_trunk_name)
    /\ ~Truthy(entry.inbound_trunk_name)
    /\ bridge_linkedid(Cur(0), entry, entry.uniqueid) \notin incoming_linkedids

\* C14: an outbound call gets exactly one outbound row, with answered = 1,
\* and publishes nothing: its bridge add inserts the row, a bridge update
\* that follows while the call is in progress (its metadata is kept)
\* inserts no further row, the deletes of its channels insert none, and
\* none of these steps publishes an event.
C14_OneRowPerOutboundCall ==
    [][/\ \A entry \in HistoryEntries :
            LET id == bridge_linkedid(Cur(0), entry, entry.uniqueid)
            IN  (IsOutboundBridge(entry) /\ HandleWithin(entry, MaxHistoryRows))
                => /\ published' = <<>>
                   /\ (entry.action = "add" /\ id \notin DOMAIN call_log_meta)
                      => /\ RowInserted
                         /\ call_log'[Len(call_log')].direction = "outbound"
                         /\ call_log'[Len(call_log')].answered = 1
                         /\ call_log'[Len(call_log')].linkedid = id
                   /\ (entry.action = "update" /\ id \in DOMAIN call_log_meta)
                      => Len(call_log') = Len(call_log)
       /\ \A entry \in HistoryEntries :
            (/\ entry.action = "delete"
             /\ TakesLastChannel(entry)
             /\ delete_linked(entry) \notin incoming_linkedids
             /\ HandleWithin(entry, MaxHistoryRows))
            => /\ published' = <<>>
               /\ Len(call_log') = Len(call_log)]_vars

\* C15: an outbound row is inserted only by the handling of a bridge
\* add/update that has outbound_trunk_name, no inbound_trunk_name and an
\* external number; no unbridge entry, no delete and no other step
\* inserts one.
C15_OutboundRowOnlyAtBridge ==
    [][(RowInserted /\ call_log'[Len(call_log')].direction = "outbound")
       => /\ phase = "receiving"
          /\ \A entry \in Entries :
                Handle(entry)
                => /\ IsBridgeAdd(entry)
                   /\ Truthy(entry.outbound_trunk_name)
                   /\ ~Truthy(entry.inbound_trunk_name)
                   /\ Truthy(extract_bridge_parties(entry).ext_num)]_vars

\* an outbound call is in the log, answered, and is still in progress
C15_OutboundCallLogged ==
    \E i \in DOMAIN call_log :
        /\ call_log[i].direction = "outbound"
        /\ call_log[i].answered = 1
        /\ call_log[i].linkedid \in DOMAIN call_log_meta
        /\ call_log[i].linkedid \in DOMAIN call_channels

\* ---------------------------------------------------------------------
\* Properties of the connection
\* ---------------------------------------------------------------------

\* the in-flight maps hold nothing
StateWiped ==
    /\ active_calls = EmptyDict
    /\ channel_map = EmptyDict
    /\ call_channels = EmptyDict
    /\ incoming_linkedids = {}
    /\ call_log_meta = EmptyDict

\* C16: after a session end, whatever its reason and whatever position
\* of the session it interrupts, and until the next connection attempt,
\* active_calls, the channel index in both directions, the inbound set
\* and the history metadata are empty.
C16_WipedBetweenSessions ==
    /\ [](phase \in {"wiped", "sleeping"} => StateWiped)
    /\ [][\A p \in InSession : (phase = p /\ SessionEnd) => StateWiped']_vars

\* a session ended with a call in progress, and the retry is pending
C16_SessionLostWithCall ==
    /\ phase = "sleeping"
    /\ calls_lost > 0
    /\ call_log # <<>>

\* C17: the row of an inbound call that was rung and bridged and whose
\* session was lost before its channels were deleted stays answered = 1
\* with duration = 0 whatever is processed afterwards; and after such a
\* loss a new call is processed normally: its extension ring creates the
\* record and publishes call_ring, its bridge connects it and publishes
\* call_connect, and the delete of its last channel removes it and
\* publishes call_hangup.
C17_LostCallRowKept ==
    /\ [](\A i \in lost_rows :
            call_log[i].answered = 1 /\ call_log[i].duration = 0)
    /\ [][\A entry \in HistoryEntries :
            (calls_lost > 0 /\ HandleWithin(entry, MaxHistoryRows))
            => /\ LET id == unbridge_linkedid(entry, entry.uniqueid)
                  IN  (IsExtRing(entry) /\ id \in incoming_linkedids
                       /\ id \notin DOMAIN active_calls)
                      => /\ published' = <<Event("call_ring", id)>>
                         /\ RecordState(active_calls', id) = "ringing"
               /\ LET id == bridge_linkedid(Cur(0), entry, entry.uniqueid)
                  IN  (IsBridgeAdd(entry) /\ RecordState(active_calls, id) = "ringing")
                      => /\ published' = <<Event("call_connect", id)>>
                         /\ RecordState(active_calls', id) = "connected"
               /\ LET id == delete_linked(entry)
                  IN  (entry.action = "delete" /\ TakesLastChannel(entry)
                       /\ id \in DOMAIN active_calls)
                      => /\ published' = <<Event("call_hangup", id)>>
                         /\ id \notin DOMAIN active_calls']_vars

\* C18: a session ends, from any position and for any reason, in the wipe
\* and never outside the loop; while the flag is set the wipe is followed
\* by the sleep and the sleep by a connection attempt, and both happen;
\* the loop is left only when the flag is false.
C18_RetryUntilStopped ==
    /\ [][/\ phase' = "exited" => ~running
          /\ (phase \in InSession /\ phase' \notin InSession)
             => phase' = IF running' THEN "wiped" ELSE "stopped"
          /\ (phase = "wiped" /\ phase' # "wiped")
             => phase' = IF running THEN "sleeping" ELSE "exited"
          /\ (phase = "sleeping" /\ phase' # "sleeping" /\ running')
             => phase' = "connecting"]_vars
    /\ (phase = "wiped" /\ running) ~> (phase = "sleeping" \/ ~running)
    /\ (phase = "sleeping" /\ running) ~> (phase = "connecting" \/ ~running)

\* the monitor connects again after a session that was lost with a call
C18_ConnectsAgain ==
    /\ phase = "connecting"
    /\ running
    /\ calls_lost > 0

\* the request frames of one connection, in the order they are sent
Frames == <<"challenge", "login", "subscribe">>

\* the frame carries a challenge, under message or under response
HasChallenge(resp) ==
    \/ resp.message = "dict" /\ Given(resp.challenge)
    \/ Given(resp.response_challenge)

\* the frame carries status 0, under message or at top level
HasStatusZero(resp) ==
    \/ resp.message = "dict" /\ resp.status = {0}
    \/ resp.top_status = {0}

\* the connection has just been given up: state wiped, flag untouched
ConnectionAborted ==
    /\ phase' = "wiped"
    /\ sent' = <<>>
    /\ running' = running
    /\ StateWiped'

\* C19: the frames of a connection are sent in the order challenge, login,
\* subscribe, one at a time; a challenge response without challenge sends
\* no login and a login response without status 0 sends no subscribe, and
\* both end the connection in the wipe with the flag untouched; entries
\* are processed only on a connection on which the three frames were sent.
C19_HandshakeOrder ==
    /\ [](/\ \E n \in 0..Len(Frames) : sent = SubSeq(Frames, 1, n)
          /\ phase = "challenge" => sent = SubSeq(Frames, 1, 1)
          /\ phase = "login" => sent = SubSeq(Frames, 1, 2)
          /\ phase \in {"subscribe", "receiving"} => sent = Frames)
    /\ [][/\ \A resp \in ChallengeResponses :
                (~HasChallenge(resp) /\ ReceiveChallenge(resp)) => ConnectionAborted
          /\ \A resp \in LoginResponses :
                (~HasStatusZero(resp) /\ ReceiveLogin(resp)) => ConnectionAborted
          /\ Len(sent') > Len(sent) => sent' = SubSeq(Frames, 1, Len(sent) + 1)
          /\ (call_log' # call_log \/ published' # <<>> \/ active_calls' # active_calls)
             => (phase = "receiving" /\ sent = Frames)]_vars

\* an entry is processed, and published, after the three frames
C19_ProcessedAfterHandshake ==
    /\ phase = "receiving"
    /\ sent = Frames
    /\ running
    /\ published # <<>>

\* status 0 under message, or at top level with none under message
StatusZeroEitherPlace(resp) ==
    \/ resp.message = "dict" /\ resp.status = {0}
    \/ /\ resp.top_status = {0}
       /\ resp.message # "dict" \/ resp.status = {}

\* C20: a login response with status 0 under message, or with status 0 at
\* top level and no status (or no message object) under message, is a
\* success: authentication goes on and the subscribe frame is sent.
C20_LoginStatusEitherPlace ==
    [][\A resp \in LoginResponses :
          (StatusZeroEitherPlace(resp) /\ ReceiveLogin(resp))
          => /\ phase' = "subscribe"
             /\ sent' = Frames]_vars

\* C21: once the heartbeat task has ended on a failed send, the session
\* does not go on: the receive loop is left and the state is wiped (unless
\* the monitor is stopped first); and while the monitor is not stopped a
\* new connection attempt follows.
C21_HeartbeatFailureEndsSession ==
    /\ (heartbeat = "ended") ~> (phase = "wiped" \/ ~running)
    /\ (heartbeat = "ended") ~> (phase = "connecting" \/ ~running)
    /\ [][(heartbeat = "ended" /\ phase' # phase /\ running')
          => (phase' = "wiped" /\ StateWiped')]_vars

\* the heartbeat has failed during a call and the session is still there
C21_HeartbeatFailed ==
    /\ heartbeat = "ended"
    /\ phase = "receiving"
    /\ running
    /\ active_calls # EmptyDict

\* C22: a frame that is not JSON, or is JSON of an unexpected shape, is
\* discarded: nothing of the correlator or of presence changes, nothing is
\* published or written, and the session stays up, in the receive loop.
C22_OddFrameDiscarded ==
    [][\A frame \in OddFrames :
          ReceiveFrame(frame)
          => /\ UNCHANGED <<active_calls, channel_map, call_channels,
                            incoming_linkedids, call_log_meta, call_log,
                            extension_status>>
             /\ published' = <<>>
             /\ phase' = "receiving"
             /\ link' = link]_vars

\* C23: after stop() on a running monitor with an open session, the
\* background task eventually has cancelled the heartbeat task, closed the
\* WebSocket, closed the database and terminated.
C23_StopCleansUp ==
    (phase = "stopped" /\ link = "open" /\ heartbeat = "running")
    ~> (/\ heartbeat = "cancelled"
        /\ link = "closed"
        /\ ~db
        /\ phase = "terminated")

\* ---------------------------------------------------------------------
\* Properties of the event fan-out
\* ---------------------------------------------------------------------

Delivered(q) == [i \in DOMAIN frames[q] |-> frames[q][i].ref] \o queues[q]

\* the event objects published while q was subscribed, in order
Window(q) ==
    LET last == IF subscriber[q].state = "closed" THEN subscriber[q].to ELSE Len(heap)
    IN  [i \in 1 .. (last - subscriber[q].from) |-> subscriber[q].from + i]

\* C25: what a subscriber dequeues, followed by what its queue still
\* holds, is made of events published while it was subscribed, each at
\* most once and in the order of publication; when its queue has refused
\* nothing it is exactly those events.
C25_SubscriberSeesEmissionOrder ==
    \A q \in Queues :
        subscriber[q].state # "none"
        => /\ \A i \in DOMAIN Delivered(q) : Delivered(q)[i] \in Range(Window(q))
           /\ \A i, j \in DOMAIN Delivered(q) : i < j => Delivered(q)[i] < Delivered(q)[j]
           /\ ~subscriber[q].refused => Delivered(q) = Window(q)

\* a subscriber that came late and left early has dequeued its events
C25_StreamDrained ==
    \E q \in Queues :
        /\ subscriber[q].state = "closed"
        /\ subscriber[q].from > 0
        /\ subscriber[q].to < Len(heap)
        /\ frames[q] # <<>>
        /\ queues[q] = <<>>
        /\ ~subscriber[q].refused

\* a bound on a queue that the events of one behaviour can put to the test
QueueBound == MaxEvents - 1

\* C26: the queue of an SSE client never holds more than a fixed number of
\* events, however slowly its stream consumes.
C26_SseQueueBounded ==
    \A q \in Queues :
        subscriber[q].state = "streaming" => Len(queues[q]) <= QueueBound

\* C27: the frame a stream emits for an event carries the type the event
\* was published with, whatever the other streams have done with it.
C27_FrameCarriesOwnType ==
    [][\A q \in Queues :
          Consume(q)
          => LET frame == frames'[q][Len(frames'[q])]
             IN  frame.type = broadcast[frame.ref]]_vars

\* ---------------------------------------------------------------------
\* Properties of click-to-dial
\* ---------------------------------------------------------------------

\* the positions in seq at which x stands
Places(seq, x) == {i \in DOMAIN seq : seq[i] = x}

\* the requests of a dial, as they stand in its log
Requests == {"challenge", "login", "dialOutbound"}

\* C28: one dial posts at most two dialOutbound requests; the second is
\* posted only after the first failed, the cookie was dropped, and a login
\* made after that gave a cookie; when the second request, or a challenge
\* or login of the dial, fails, the dial ends with the error and posts
\* nothing more.
C28_DialRetriesOnce ==
    /\ [](\A th \in Threads :
            LET sent_dials == Places(http[th], "dialOutbound")
            IN  /\ Cardinality(sent_dials) <= 2
                /\ \A i, j \in sent_dials :
                      i < j => /\ http[th][i + 1] = "error"
                               /\ http[th][i + 2] = "drop"
                               /\ logins > mark[th]
                               /\ local[th] > mark[th])
    /\ [][\A th \in Threads :
            /\ (http'[th] # http[th] /\ http'[th] # <<>>
                /\ http'[th][Len(http'[th])] = "error"
                /\ Places(http'[th], "drop") # {})
               => pc'[th] = "failed"
            /\ pc[th] \in {"failed", "done"} => http'[th] = http[th]]_vars

\* a dial has succeeded at its second request, after a login of its own
C28_SecondRequestSucceeded ==
    \E th \in Threads :
        /\ pc[th] = "done"
        /\ Cardinality(Places(http[th], "dialOutbound")) = 2
        /\ Cardinality(Places(http[th], "login")) = 1

\* the positions inside _authenticate
Authenticating == {At(at, attempt) : at \in {"chal", "login"}, attempt \in Attempts}

\* C29: of two dials that run at the same time with no cached cookie, or
\* with one that is too old, at most one is in the challenge/login
\* exchange; the other uses the cookie that the first obtains.
C29_OneDialAuthenticates ==
    \A t1, t2 \in Threads :
        (pc[t1] \in Authenticating /\ pc[t2] \in Authenticating) => t1 = t2

\* ---------------------------------------------------------------------
\* Properties of presence
\* ---------------------------------------------------------------------

\* C30: an extension that has a presence entry keeps one in every later
\* state; the entry of an extension holds the status of the latest
\* ExtensionStatus entry processed for it; no step removes an entry.
C30_PresenceKept ==
    [][/\ DOMAIN extension_status \subseteq DOMAIN extension_status'
       /\ \A entry \in PresenceEntries :
             (Truthy(entry.extension) /\ HandlePresence(entry))
             => extension_status'[entry.extension] = entry.status
       /\ \A x \in DOMAIN extension_status :
             extension_status'[x] # extension_status[x]
             => \E entry \in PresenceEntries :
                   entry.extension = x /\ HandlePresence(entry)]_vars

\* ---------------------------------------------------------------------
\* Properties of a notification of several entries
\* ---------------------------------------------------------------------

\* the entries carrying inbound_trunk_name in delivery order, then the
\* others in delivery order
TrunkFirst(eventbody) ==
    SelectSeq(eventbody, LAMBDA e : e.inbound_trunk_name # "")
    \o SelectSeq(eventbody, LAMBDA e : e.inbound_trunk_name = "")

\* an extension-side ring of id is delivered before a trunk ring of id
ExtRingBeforeTrunkRing(eventbody, id) ==
    \E i, j \in DOMAIN eventbody :
        /\ i < j
        /\ IsRingEntry(eventbody[i]) /\ ~IsTrunkRing(eventbody[i])
        /\ IsTrunkRing(eventbody[j])
        /\ unbridge_linkedid(eventbody[i], eventbody[i].uniqueid) = id
        /\ unbridge_linkedid(eventbody[j], eventbody[j].uniqueid) = id

\* C33: the entries of a notification are processed trunk entries first
\* (those carrying inbound_trunk_name), each of the two groups in delivery
\* order; so when an extension-side ring of a call that has no record comes
\* before the trunk ring of the call in one notification, the notification
\* still creates the CallRecord and publishes one call_ring for it.
C33_TrunkEntriesFirst ==
    [][LET eventbody == processed'.eventbody
       IN  (eventbody \in CallNotifications /\ HandleBatch(eventbody))
           => /\ processed'.order = Positions(TrunkFirst(Numbered(eventbody)))
              /\ \A id \in Ids :
                    (ExtRingBeforeTrunkRing(eventbody, id)
                     /\ id \notin DOMAIN active_calls)
                    => /\ id \in DOMAIN active_calls'
                       /\ Count(published', Event("call_ring", id)) = 1]_vars

\* the extension ring was delivered first and the trunk ring second, in the
\* first notification about the call: the trunk ring was processed first
\* and the call is announced
C33_ExtRingDeliveredFirst ==
    /\ processed.order = <<2, 1>>
    /\ ExtRingBeforeTrunkRing(processed.eventbody, "L1")
    /\ published = <<Event("call_ring", "L1")>>
    /\ "L1" \in DOMAIN active_calls
    /\ call_channels = [id \in {"L1"} |-> {TrunkChannel, ExtChannel}]

\* ---------------------------------------------------------------------
\* Properties of two runs over the same notifications
\* ---------------------------------------------------------------------

\* the rows without their clock-derived value
Timeless(rows) == [i \in DOMAIN rows |-> [rows[i] EXCEPT !.duration = 0]]

\* C32: a second run that processes the same notifications in the same
\* order from a clean state, reading its own clock, has after every
\* notification the same active_calls, has published the same events in
\* the same order, and holds the same call_log rows but for their
\* durations.
C32_ReplayAgrees ==
    /\ replay.active_calls = active_calls
    /\ replay.published = published
    /\ Timeless(replay.call_log) = Timeless(call_log)

\* the clocks of the two runs differed: the same call has another duration
\* in the second run
C32_ClocksDiffered ==
    /\ call_log # <<>>
    /\ Len(replay.call_log) = Len(call_log)
    /\ replay.call_log[1].duration # call_log[1].duration

\* ---------------------------------------------------------------------
\* Properties of the reader's snapshot
\* ---------------------------------------------------------------------

\* C31: the dict a reader got from get_active_calls stays as it was when it
\* was copied: no later operation of the correlator (ring-group growth,
\* connect, hangup, state wipe) changes the records or the extension lists
\* the reader holds.
C31_SnapshotStable == snapshot = snapshot_at_copy

\* ---------------------------------------------------------------------
\* Properties of the history writes under failure
\* ---------------------------------------------------------------------

\* C38: a second run in which history writes fail, or which has no
\* database, has after every notification the same active_calls, the same
\* channel index in both directions and the same inbound set as the run in
\* which every write succeeds, and has published the same events.
C38_MemoryUnaffectedByWrites ==
    /\ replay.active_calls = active_calls
    /\ replay.channel_map = channel_map
    /\ replay.call_channels = call_channels
    /\ replay.incoming_linkedids = incoming_linkedids
    /\ replay.published = published

\* the insert of the inbound row failed in the second run, with its
\* database open, and the call went on to be connected in both runs
C38_WriteFailed ==
    /\ replay.db
    /\ call_log # <<>>
    /\ call_log[1].answered = 1
    /\ replay.call_log = <<>>
    /\ "L1" \in DOMAIN replay.active_calls
    /\ replay.active_calls["L1"].state = "connected"

\* ---------------------------------------------------------------------
\* Properties of the channel index and of the attribution of entries
\* ---------------------------------------------------------------------

\* C34: the two directions of the channel index agree in every reachable
\* state: _channel_map sends channel c to id L if and only if c is in the
\* channel set that _call_channels keeps for L.
C34_IndexDirectionsAgree ==
    \A c \in Channels \cup {""}, id \in AllIds \cup {""} :
        (c \in DOMAIN channel_map /\ channel_map[c] = id)
        <=> (id \in DOMAIN call_channels /\ c \in call_channels[id])

\* the first value of seq that is not empty, or "" when there is none
FirstGiven(seq) ==
    LET given == SelectSeq(seq, Truthy)
    IN  IF given # <<>> THEN Head(given) ELSE ""

\* the correlation id of a bridge add/update in the current state, by the
\* priority order: linkedid; the id indexed for channel1, for channel2, for
\* channel; for an outbound bridge its uniqueid or a channel; else ""
ExpectedBridgeId(entry) ==
    LET indexed(ch) == Truthy(ch) /\ ch \in DOMAIN channel_map
    IN  IF entry.linkedid \notin {"", Missing} THEN entry.linkedid
        ELSE IF indexed(entry.channel1) THEN channel_map[entry.channel1]
        ELSE IF indexed(entry.channel2) THEN channel_map[entry.channel2]
        ELSE IF indexed(entry.channel) THEN channel_map[entry.channel]
        ELSE IF entry.outbound_trunk_name # ""
        THEN FirstGiven(<<entry.uniqueid, entry.channel1, entry.channel2, entry.channel>>)
        ELSE ""

\* C35: a bridge add/update registers all its channels under the id given
\* by the priority order (linkedid, index lookup of channel1, channel2,
\* channel, outbound fallback), in both directions of the index; when the
\* order gives no id the entry changes nothing: the index, the store, the
\* inbound set, the history and its metadata are as before, and nothing is
\* published.
C35_BridgeIdResolution ==
    [][\A entry \in AttributionEntries :
          (IsBridgeAdd(entry) /\ Handle(entry))
          => LET id == ExpectedBridgeId(entry)
                 chans == bridge_channels(entry)
             IN  IF id # ""
                 THEN \A i \in DOMAIN chans :
                         /\ chans[i] \in DOMAIN channel_map'
                         /\ channel_map'[chans[i]] = id
                         /\ id \in DOMAIN call_channels'
                         /\ chans[i] \in call_channels'[id]
                 ELSE /\ UNCHANGED <<active_calls, channel_map, call_channels,
                                     incoming_linkedids, call_log_meta, call_log>>
                      /\ published' = <<>>
                      /\ executed' = <<>>]_vars

\* an outbound bridge without linkedid, without uniqueid and with no indexed
\* channel was attributed to its channel1: the row and both channels carry
\* that id
C35_ResolvedByFallback ==
    /\ call_log # <<>>
    /\ call_log[1].direction = "outbound"
    /\ call_log[1].linkedid = ExtChannel
    /\ ExtChannel \in DOMAIN call_channels
    /\ call_channels[ExtChannel] = {ExtChannel, TrunkChannel}

\* the entry cannot be attributed to a call in the current state: a ring
\* entry whose linkedid and channel are empty, an unbridge delete whose
\* channel is empty or not indexed, a bridge delete with no indexed channel
Unattributable(entry) ==
    \/ /\ IsRingEntry(entry)
       /\ entry.linkedid = ""
       /\ entry.channel = ""
    \/ /\ entry.chantype = "unbridge"
       /\ entry.action = "delete"
       /\ (entry.channel = "" \/ entry.channel \notin DOMAIN channel_map)
    \/ /\ entry.chantype = "bridge"
       /\ entry.action = "delete"
       /\ \A ch \in {entry.channel, entry.channel1, entry.channel2} :
             ch = "" \/ ch \notin DOMAIN channel_map

\* C36: an entry that cannot be attributed to a call leaves active_calls,
\* both directions of the channel index, the inbound set, the history
\* metadata and call_log as they were, executes no statement and publishes
\* nothing.
C36_UnattributableChangesNothing ==
    [][\A entry \in AttributionEntries :
          (Unattributable(entry) /\ Handle(entry))
          => /\ UNCHANGED <<active_calls, channel_map, call_channels,
                            incoming_linkedids, call_log_meta, call_log>>
             /\ published' = <<>>
             /\ executed' = <<>>]_vars

\* a call is ringing and its record is complete: the entries that name
\* nothing and the deletes of unknown channels have something to disturb
C36_CallInProgress ==
    /\ "L1" \in DOMAIN active_calls
    /\ active_calls["L1"].state = "ringing"
    /\ "L1" \in incoming_linkedids
    /\ "L1" \in DOMAIN call_log_meta
    /\ call_log # <<>>
    /\ TrunkChannel \notin DOMAIN channel_map
    /\ published = <<>>

\* ---------------------------------------------------------------------
\* Properties of the history writes
\* ---------------------------------------------------------------------

\* C37: a bridge add/update neither of whose channel1, channel2 contains
\* "trunk" performs no history write, whether its id is outbound or
\* inbound: no row is inserted or updated, no statement is executed and
\* the history metadata is unchanged.
C37_NoTrunkNoHistoryWrite ==
    [][\A entry \in AttributionEntries :
          (/\ IsBridgeAdd(entry)
           /\ ~ContainsTrunk(entry.channel1)
           /\ ~ContainsTrunk(entry.channel2)
           /\ Handle(entry))
          => /\ call_log' = call_log
             /\ call_log_meta' = call_log_meta
             /\ executed' = <<>>]_vars

\* C40: the row of a call that has ended, by the delete of its last channel
\* or by a state wipe, keeps its answered, internal_ext and duration
\* values in every later step, also when its correlation id comes again
\* for a later call: mark-answered and finalize write the row of the
\* current call only.
C40_EarlierRowsKept ==
    [][\A i \in closed_rows :
          /\ call_log'[i].answered = call_log[i].answered
          /\ call_log'[i].internal_ext = call_log[i].internal_ext
          /\ call_log'[i].duration = call_log[i].duration]_vars

\* ---------------------------------------------------------------------
\* Properties of the state wipe
\* ---------------------------------------------------------------------

\* C39: the step that ends a session and wipes the state publishes nothing
\* and leaves the subscriber queues as they were; a call_hangup is only
\* published by a step that removes a CallRecord the store holds, so a
\* call that the wipe dropped never gets one.
C39_WipePublishesNothing ==
    [][/\ (phase # "wiped" /\ phase' = "wiped")
          => (published' = <<>> /\ UNCHANGED <<event_queues, queues, heap>>)
       /\ \A id \in AllIds :
             Count(published', Event("call_hangup", id)) > 0
             => (id \in DOMAIN active_calls /\ id \notin DOMAIN active_calls')]_vars

\* the session was lost while a call was announced: its call_ring is still
\* without call_hangup after the wipe
C39_CallLostUnannounced ==
    /\ phase = "wiped"
    /\ calls_lost > 0
    /\ active_calls = EmptyDict
    /\ \E id \in Ids : ring_open[id] /\ ring_balance[id] = 1

====
